---- MODULE Spec2Model ----
(***************************************************************************)
(* URL reputation lookup service: the result cache (src/utils/cache.py on  *)
(* cachetools.TTLCache), the source adapters (file_loader.py,              *)
(* http_loader.py, base.py), the request handler (src/api/urlinfo.py) and  *)
(* the aggregator MalwareChecker, whose module src/services/               *)
(* malware_checker.py is not among the source files and is modelled from   *)
(* section 4.3 / 4.4 of the specification.                                 *)
(*                                                                         *)
(* Time is a global clock `now` in seconds.  asyncio runs one callback at  *)
(* a time, so every action is one uninterrupted run of a coroutine between *)
(* two suspension points.  Confidence scores are kept in tenths            *)
(* (1.0 = 10) so that they stay integers.                                  *)
(***************************************************************************)
EXTENDS Integers, Sequences, FiniteSets, TLC

VARIABLES
    now,          \* the clock read by TTLCache's timer and by the deadlines
    enabled,      \* URLCache.enabled (settings.cache_enabled)
    maxsize,      \* URLCache(maxsize=...)
    ttl,          \* URLCache(ttl=...)
    cache,        \* TTLCache: entries oldest first, [key, value, expires]
    instance,     \* MalwareCheckerContainer._instance is set
    ready,        \* BaseLoader._ready, per loader
    malware_urls, \* FileLoader.malware_urls, per file loader
    client,       \* HTTPLoader.client is set, per http loader
    req,          \* the requests in flight and answered, per slot
    lastSet,      \* history: per key, when URLCache.set last stored it (-1: never)
    origin,       \* history: per key, what was last stored for it (the verdict
                  \* of the query that stored it; the value, for a direct set)
    hist,         \* history: the last calls made on the URLCache directly
    nreq,         \* history: how many requests have been made
    deadline,     \* settings.api_request_timeout_seconds in force
    exchange,     \* the HTTP exchange passing through main.py's middleware
    lock,         \* metrics._lock: the thread holding it, or Unlocked
    counters,     \* metrics._counters
    thread,       \* per thread: where it is in dispatch and in incr
    passed,       \* history: per counter, the amounts passed to incr since the reset
    orphans       \* history: the requests that were in flight at the last reset

vars == <<now, enabled, maxsize, ttl, cache, instance, ready, malware_urls,
          client, req, lastSet, origin, hist, nreq, deadline, exchange, lock,
          counters, thread, passed, orphans>>

(***************************************************************************)
(* Bounds of the model and constants of the program.                       *)
(***************************************************************************)
MaxTime == 10        \* the clock stops here
TimeStep == 5        \* seconds one Tick advances the clock
MaxSize == 2         \* the largest cache capacity tried
CacheTtl == 10       \* the cache ttl tried beside the unit test's
MaxFiles == 2        \* at most this many entries in settings.malware_db_files
MaxUrls == 2         \* at most this many entries in settings.malware_db_http_urls
MaxReq == 2          \* requests made, one after the other
MaxThreads == 2      \* threads calling into the metrics module
MaxCount == 2        \* the calls of incr followed per counter between two resets

TestTtl == 1                        \* URLCache(maxsize=100, ttl=1) of the ttl test
db_query_timeout_seconds == 5       \* Settings.db_query_timeout_seconds
api_request_timeout_seconds == 10   \* Settings.api_request_timeout_seconds
MIN_LEN_HOSTNAME == 2
MIN_URL_LENGTH == 10                \* url_validator.MIN_URL_LENGTH
MAX_URL_LENGTH == 2048
HTTPS_PORT == 443
SUCCESS_CODE == 200
ConfidenceMax == 10                 \* URLCheckResponse.confidence_score le=1.0, in tenths

\* Python's None, for the optional strings
None == "None"

\* Optional values that are not strings: absent is the empty set
Absent == {}
Some(v) == {v}
TheValue(o) == CHOOSE v \in o : TRUE

Range(s) == {s[i] : i \in 1..Len(s)}

\* Python's dict.get(k, default) on a dict given as a function
DictGet(d, k, default) == IF k \in DOMAIN d THEN d[k] ELSE default

(***************************************************************************)
(* cachetools.TTLCache as URLCache uses it (getsizeof is 1 per entry).     *)
(***************************************************************************)
\* TTLCache.expire: unlink from the head while not (time < expires)
RECURSIVE Expire(_, _)
Expire(c, time) ==
    IF c # <<>> /\ ~(time < c[1].expires) THEN Expire(Tail(c), time) ELSE c

\* TTLCache.__contains__
Contains(c, key, time) ==
    \E i \in 1..Len(c) : c[i].key = key /\ time < c[i].expires

\* Variant of Cache.get that answers with the oldest entry, whatever its key
TTLGetHead(c, key, time) ==
    IF c # <<>> /\ time < c[1].expires THEN Some(c[1].value) ELSE Absent

\* Cache.get over TTLCache.__contains__ / __getitem__
TTLGet(c, key, time) ==
    IF Contains(c, key, time)
    THEN Some((CHOOSE e \in Range(c) : e.key = key).value)
    ELSE Absent

\* Cache.__setitem__'s eviction loop: popitem() drops the head while there is no room
RECURSIVE PopUntilRoom(_, _)
PopUntilRoom(c, size) ==
    IF Len(c) + 1 > size /\ c # <<>> THEN PopUntilRoom(Tail(c), size) ELSE c

Without(c, key) == SelectSeq(c, LAMBDA e : e.key # key)

\* Variant of TTLCache.__setitem__ that links a new entry without unlinking
\* the one the key already has
TTLSetItemDuplicate(c, key, value, time, size, life) ==
    LET live == Expire(c, time)
        entry == [key |-> key, value |-> value, expires |-> time + life]
    IN  IF 1 > size
        THEN [cache |-> live, raised |-> TRUE]
        ELSE [cache |-> Append(live, entry), raised |-> FALSE]

\* TTLCache.__setitem__: [cache, raised]; ValueError("value too large") when
\* one entry does not fit, raised after expire() has run
TTLSetItem(c, key, value, time, size, life) ==
    LET live == Expire(c, time)
        entry == [key |-> key, value |-> value, expires |-> time + life]
    IN  IF 1 > size
        THEN [cache |-> live, raised |-> TRUE]
        ELSE IF \E e \in Range(live) : e.key = key
             THEN [cache |-> Append(Without(live, key), entry), raised |-> FALSE]
             ELSE [cache |-> Append(PopUntilRoom(live, size), entry),
                   raised |-> FALSE]

\* TTLCache.__len__: the entries that have not expired
TTLLen(c, time) == Len(Expire(c, time))

(***************************************************************************)
(* URLCache                                                                *)
(***************************************************************************)
\* Variant of URLCache.get over a plain dict: the expiry is not looked at
URLCacheGetNoExpiry(c, on, key, time) ==
    IF ~on THEN Absent
    ELSE IF \E e \in Range(c) : e.key = key
         THEN Some((CHOOSE e \in Range(c) : e.key = key).value)
         ELSE Absent

\* Variant of URLCache.get with its `enabled` test inverted: never a value
URLCacheGetNever(c, on, key, time) ==
    IF on THEN Absent ELSE TTLGet(c, key, time)

\* Variant of URLCache.get written `self.cache.get(url) or None`: a stored
\* False comes back as None
URLCacheGetTruthy(c, on, key, time) ==
    IF ~on THEN Absent
    ELSE IF TTLGet(c, key, time) = Some(TRUE) THEN Some(TRUE) ELSE Absent

\* URLCache.get
URLCacheGet(c, on, key, time) ==
    IF ~on THEN Absent ELSE TTLGet(c, key, time)

\* Variant of URLCache.set without its except clause: the error goes on
PropagateCacheError(raised) == raised

\* What URLCache.set does with an error of TTLCache.__setitem__: `pass`
SwallowCacheError(raised) == FALSE

\* Variant of URLCache.set over a plain dict: nothing is evicted
URLCacheSetUnbounded(c, on, key, value, time, size, life) ==
    IF ~on
    THEN [cache |-> c, raised |-> FALSE, stored |-> FALSE]
    ELSE [cache |-> Append(Without(Expire(c, time), key),
                           [key |-> key, value |-> value, expires |-> time + life]),
          raised |-> FALSE, stored |-> TRUE]

\* Variant of URLCache.set written `except KeyError:`: TTLCache's ValueError
\* ("value too large") is not caught
URLCacheSetKeyErrorOnly(c, on, key, value, time, size, life) ==
    IF ~on
    THEN [cache |-> c, raised |-> FALSE, stored |-> FALSE]
    ELSE LET r == TTLSetItem(c, key, value, time, size, life)
         IN  [cache |-> r.cache, raised |-> r.raised, stored |-> ~r.raised]

\* Variant of URLCache.set without its `enabled` test
URLCacheSetAlways(c, on, key, value, time, size, life) ==
    LET r == TTLSetItem(c, key, value, time, size, life)
    IN  [cache |-> r.cache,
         raised |-> IF r.raised THEN SwallowCacheError(r.raised) ELSE FALSE,
         stored |-> ~r.raised]

\* URLCache.set: [cache, raised, stored]
URLCacheSet(c, on, key, value, time, size, life) ==
    IF ~on
    THEN [cache |-> c, raised |-> FALSE, stored |-> FALSE]
    ELSE LET r == TTLSetItem(c, key, value, time, size, life)
         IN  [cache |-> r.cache,
              raised |-> IF r.raised THEN SwallowCacheError(r.raised) ELSE FALSE,
              stored |-> ~r.raised]

\* URLCache.clear
URLCacheClear(c) == <<>>

\* URLCache.size
URLCacheSize(c, time) == TTLLen(c, time)

(***************************************************************************)
(* Verdicts: base.ThreatInfo                                               *)
(***************************************************************************)
ThreatLevels == <<"safe", "low", "medium", "high", "critical">>

\* Variant of ThreatInfo without __post_init__'s normalisation
ThreatInfoRaw(is_malicious, threat_type, threat_level, confidence_score, metadata, detected_by) ==
    [is_malicious |-> is_malicious,
     threat_type |-> threat_type,
     threat_level |-> threat_level,
     confidence_score |-> confidence_score,
     metadata |-> metadata,
     detected_by |-> detected_by]

\* ThreatInfo(...) with __post_init__: a malicious verdict never stays "safe".
\* metadata is kept as the set of its keys.
ThreatInfo(is_malicious, threat_type, threat_level, confidence_score, metadata, detected_by) ==
    [is_malicious |-> is_malicious,
     threat_type |-> threat_type,
     threat_level |-> IF is_malicious /\ threat_level = "safe"
                      THEN "medium" ELSE threat_level,
     confidence_score |-> confidence_score,
     metadata |-> metadata,
     detected_by |-> detected_by]

\* The dataclass defaults: threat_type None, threat_level "safe", confidence 1.0
ThreatInfoDefault(is_malicious, metadata, detected_by) ==
    ThreatInfo(is_malicious, None, "safe", 10, metadata, detected_by)

(***************************************************************************)
(* The registered adapters: main.create_malware_checker                    *)
(***************************************************************************)
\* settings.malware_db_files, then settings.malware_db_http_urls, in this order
FileLoaders == {"file-sample_malware.csv"}
HTTPLoaders == {"http-endpoint-0", "http-endpoint-1"}
loaders == <<"file-sample_malware.csv", "http-endpoint-0", "http-endpoint-1">>
LoaderNames == Range(loaders)

\* Variant: adapters given a timeout beyond the overall deadline
timeout_secondsLong(l) == api_request_timeout_seconds + db_query_timeout_seconds

\* timeout_seconds=settings.db_query_timeout_seconds for every loader
timeout_seconds(l) == db_query_timeout_seconds

\* str.lower().strip() on the hostnames of the model
LowerStrip(h) ==
    CASE h = "EVIL.NET" -> "evil.net"
      [] h = " evil.net" -> "evil.net"
      [] OTHER -> h

\* What FileLoader._parse_csv makes of the feed file of the model
FileContent == {<<"evil.net", 80, "/trojan">>}

\* str.strip() on the paths of the model
Strip(p) == IF p = " " THEN "" ELSE p

\* Variant of FileLookup: only the exact (hostname, port, path) entry matches
FileLookupExact(name, isready, urls, hostname, port, path) ==
    IF ~isready
    THEN ThreatInfo(FALSE, None, "safe", 10, {"error"}, name)
    ELSE LET hostname_normalized == LowerStrip(hostname)
             path_normalized == IF Strip(path) = "" THEN "/" ELSE Strip(path)
             is_malicious == <<hostname_normalized, port, path_normalized>> \in urls
         IN  ThreatInfo(is_malicious,
                        IF is_malicious THEN "malware" ELSE None,
                        IF is_malicious THEN "high" ELSE "safe",
                        IF is_malicious THEN 10 ELSE 0,
                        {"database_size"}, name)

\* FileLoader.lookup
FileLookup(name, isready, urls, hostname, port, path) ==
    IF ~isready
    THEN ThreatInfo(FALSE, None, "safe", 10, {"error"}, name)
    ELSE LET hostname_normalized == LowerStrip(hostname)
             path_normalized == IF Strip(path) = "" THEN "/" ELSE Strip(path)
             exact_match == <<hostname_normalized, port, path_normalized>> \in urls
             hostname_port_match ==
                 \E u \in urls : u[1] = hostname_normalized /\ u[2] = port
             is_malicious == exact_match \/ hostname_port_match
         IN  ThreatInfo(is_malicious,
                        IF is_malicious THEN "malware" ELSE None,
                        IF is_malicious THEN "high" ELSE "safe",
                        IF is_malicious THEN 10 ELSE 0,
                        {"database_size"}, name)

\* HTTPLoader._parse_response on a JSON object given as a function
ParseResponse(name, data) ==
    LET is_malicious ==
            DictGet(data, "is_malicious",
                DictGet(data, "malicious", DictGet(data, "threat_detected", FALSE)))
        threat_type == DictGet(data, "threat_type", DictGet(data, "type", None))
        threat_level ==
            DictGet(data, "threat_level",
                DictGet(data, "level", IF ~is_malicious THEN "safe" ELSE "medium"))
        confidence ==
            DictGet(data, "confidence_score",
                DictGet(data, "confidence", IF is_malicious THEN 10 ELSE 0))
    IN  ThreatInfo(is_malicious, threat_type, threat_level, confidence, {}, name)

\* The upstream JSON bodies tried: each endpoint speaks one of the formats
\* _parse_response supports
Payloads(name) ==
    IF name = "http-endpoint-0"
    THEN { [is_malicious |-> FALSE],
           [is_malicious |-> TRUE, threat_level |-> "safe"],
           [is_malicious |-> TRUE, threat_type |-> "phishing", threat_level |-> "high",
            confidence_score |-> 5],
           [is_malicious |-> TRUE, threat_level |-> "low", confidence_score |-> 50] }
    ELSE { [threat_detected |-> TRUE],
           [malicious |-> TRUE, type |-> "ransomware", level |-> "critical",
            confidence |-> 9],
           [malicious |-> TRUE, type |-> "trojan", level |-> "high", confidence |-> 9],
           [malicious |-> FALSE, type |-> "phishing", level |-> "high",
            confidence |-> 7] }

\* What an upstream request can end with
HTTPOutcomes(name) ==
    {[kind |-> "response", status_code |-> SUCCESS_CODE, data |-> p] : p \in Payloads(name)}
    \cup {[kind |-> k, status_code |-> c, data |-> [threat_detected |-> FALSE]] :
              k \in {"timeout", "error", "badjson"}, c \in {0}}
    \cup {[kind |-> "response", status_code |-> 500, data |-> [threat_detected |-> FALSE]]}

\* HTTPLoader.lookup, given how the upstream request ended
HTTPLookup(name, isready, hasclient, outcome) ==
    IF ~isready \/ ~hasclient
    THEN ThreatInfoDefault(FALSE, {"error"}, name)
    ELSE CASE outcome.kind = "timeout" -> ThreatInfoDefault(FALSE, {"error"}, name)
           [] outcome.kind = "error" -> ThreatInfoDefault(FALSE, {"error"}, name)
           [] outcome.kind = "badjson" -> ThreatInfoDefault(FALSE, {"error"}, name)
           [] OTHER ->
                IF outcome.status_code = SUCCESS_CODE
                THEN ParseResponse(name, outcome.data)
                ELSE ThreatInfoDefault(FALSE, {"http_status"}, name)

\* metadata["error"] of the verdict FileLoader.lookup returns, None without one
FileLookupError(isready) == IF ~isready THEN "Loader not ready" ELSE None

\* metadata["error"] of the verdict HTTPLoader.lookup returns, None without
\* one; "str(e)" stands for the text of the exception caught
HTTPLookupError(isready, hasclient, outcome) ==
    IF ~isready \/ ~hasclient
    THEN "Loader not ready"
    ELSE CASE outcome.kind = "timeout" -> "timeout"
           [] outcome.kind = "error" -> "str(e)"
           [] outcome.kind = "badjson" -> "str(e)"
           [] OTHER -> None

(***************************************************************************)
(* The aggregator MalwareChecker (section 4.3 and 4.4 of the               *)
(* specification; its source file is not among the files).                 *)
(***************************************************************************)
\* Variant of is_ready(): every source is ready ("require all")
IsReadyAll(rdy) == \A l \in LoaderNames : rdy[l]

\* Variant of is_ready(): the checker always reports ready
IsReadyAlways(rdy) == TRUE

\* is_ready(): at least one source is ready
IsReady(rdy) == \E l \in LoaderNames : rdy[l]

\* Variant: every registered adapter is queried, ready or not
ReadyLoadersAll(rdy) == loaders

\* The adapters that are ready at call time, in registration order
ReadyLoaders(rdy) == SelectSeq(loaders, LAMBDA l : rdy[l])

\* The canonical cache key of (hostname, port, path)
CacheKey(hostname, port, path) == <<hostname, port, path>>

\* safe < low < medium < high < critical
Severity(level) == CHOOSE i \in 1..Len(ThreatLevels) : ThreatLevels[i] = level

\* A source that timed out or whose lookup raised: "no verdict"
NoVerdict(name) == ThreatInfo(FALSE, None, "safe", 0, {"error"}, name)

\* The merge policy over the collected verdicts, given in the order `verdicts`
Merge(verdicts) ==
    LET mal == {i \in 1..Len(verdicts) : verdicts[i].is_malicious}
    IN  IF mal = {}
        THEN [is_malicious |-> FALSE, threat_level |-> "safe",
              threat_type |-> None, confidence_score |-> 0]
        ELSE LET top == CHOOSE i \in mal :
                            \A j \in mal :
                                \/ Severity(verdicts[j].threat_level)
                                       < Severity(verdicts[i].threat_level)
                                \/ /\ Severity(verdicts[j].threat_level)
                                       = Severity(verdicts[i].threat_level)
                                   /\ i <= j
             IN  [is_malicious |-> TRUE,
                  threat_level |-> verdicts[top].threat_level,
                  threat_type |-> verdicts[top].threat_type,
                  confidence_score |-> verdicts[top].confidence_score]

\* Variant of the collection: the verdicts in the order the lookups completed
CollectedByArrival(q) == [i \in 1..Len(q.arrival) |-> q.results[q.arrival[i]]]

\* The verdicts of a query handed to the merge: one per queried adapter, in
\* registration order (the order of the list of lookups awaited together)
Collected(q) == [i \in 1..Len(q.queried) |-> q.results[q.queried[i]]]

\* check_url's return on a cache hit
HitResult(value) ==
    [is_malicious |-> value, databases_queried |-> <<>>,
     result_details |-> [cached |-> TRUE]]

\* check_url's return on a miss
MissResult(merged, queried) ==
    [is_malicious |-> merged.is_malicious, databases_queried |-> queried,
     result_details |-> [threat_level |-> merged.threat_level,
                         threat_type |-> merged.threat_type,
                         confidence_score |-> merged.confidence_score,
                         cached |-> FALSE]]

(***************************************************************************)
(* The request handler: api/urlinfo.lookup_url                             *)
(***************************************************************************)
\* The requests tried: hostname_and_port split at its last ":" (colon says
\* whether there is one), and original_path_and_query_string
Inputs ==
    { [hostname |-> "evil.net", colon |-> FALSE, port_text |-> "", path |-> ""],
      [hostname |-> "google.com", colon |-> TRUE, port_text |-> "80", path |-> ""],
      [hostname |-> "a", colon |-> FALSE, port_text |-> "", path |-> ""],
      [hostname |-> "", colon |-> TRUE, port_text |-> "80", path |-> ""],
      [hostname |-> "evil.net", colon |-> TRUE, port_text |-> "abc", path |-> ""],
      [hostname |-> "evil.net", colon |-> TRUE, port_text |-> "80", path |-> "LONG"] }

\* len(): "LONG" stands for a path of 2048 characters
StrLen(s) == IF s = "LONG" THEN MAX_URL_LENGTH ELSE Len(s)

\* int(parts[1]): the value, or Absent on ValueError
ParseInt(t) ==
    CASE t = "80" -> Some(80)
      [] t = "443" -> Some(443)
      [] t = "0" -> Some(0)
      [] t = "70000" -> Some(70000)
      [] t = "65535" -> Some(65535)
      [] t = "-1" -> Some(-1)
      [] OTHER -> Absent

\* len(str(port))
PortDigits(port) == IF port < 0 THEN 2 ELSE IF port < 10 THEN 1 ELSE IF port < 100 THEN 2 ELSE IF port < 1000 THEN 3 ELSE IF port < 10000 THEN 4 ELSE 5

\* Lines 80-90: the port used for the length estimate (80 when it does not parse)
TentativePort(i) ==
    IF i.colon /\ ParseInt(i.port_text) # Absent
    THEN TheValue(ParseInt(i.port_text)) ELSE 80

\* f"/{original_path_and_query_string}" if it is not empty, else "/"
NormalizedPathLen(i) == IF i.path # "" THEN 1 + StrLen(i.path) ELSE 1
NormalizedPath(i) == IF i.path # "" THEN "/" \o i.path ELSE "/"

\* len(f"{scheme}://{hostname}:{port}{normalized_path}")
TentativeUrlLen(i) ==
    (IF TentativePort(i) = HTTPS_PORT THEN 5 ELSE 4) + 3 + StrLen(i.hostname) + 1
        + PortDigits(TentativePort(i)) + NormalizedPathLen(i)

\* Variant of lines 100-126 without the hostname test
ValidationStatusNoHostname(i) ==
    IF TentativeUrlLen(i) > MAX_URL_LENGTH THEN 414
    ELSE IF i.colon /\ ParseInt(i.port_text) = Absent THEN 400
    ELSE 0

\* Lines 100-126: the status the validation answers with, 0 when the input passes
ValidationStatus(i) ==
    IF TentativeUrlLen(i) > MAX_URL_LENGTH THEN 414
    ELSE IF i.colon /\ ParseInt(i.port_text) = Absent THEN 400
    ELSE IF i.hostname = "" \/ StrLen(i.hostname) < MIN_LEN_HOSTNAME THEN 400
    ELSE 0

\* Lines 107-129: (hostname, port, path) handed to check_url
HostOf(i) == i.hostname
PortOf(i) == IF i.colon THEN TheValue(ParseInt(i.port_text)) ELSE 80
PathOf(i) == NormalizedPath(i)
KeyOf(i) == CacheKey(HostOf(i), PortOf(i), PathOf(i))

\* Variant of lines 143-152: is_malicious told from the presence of a threat type
URLCheckResponseByType(is_malicious, databases_queried, result_details) ==
    [is_malicious |-> DictGet(result_details, "threat_type", None) # None,
     threat_level |-> DictGet(result_details, "threat_level", "safe"),
     threat_type |-> DictGet(result_details, "threat_type", None),
     confidence_score |->
         DictGet(result_details, "confidence_score", IF is_malicious THEN 10 ELSE 0),
     cached |-> DictGet(result_details, "cached", FALSE),
     databases_queried |-> databases_queried]

\* Variant of lines 143-152: the threat level read under the key "level"
URLCheckResponseLevelKey(is_malicious, databases_queried, result_details) ==
    [is_malicious |-> is_malicious,
     threat_level |-> DictGet(result_details, "level", "safe"),
     threat_type |-> DictGet(result_details, "threat_type", None),
     confidence_score |->
         DictGet(result_details, "confidence_score", IF is_malicious THEN 10 ELSE 0),
     cached |-> DictGet(result_details, "cached", FALSE),
     databases_queried |-> databases_queried]

\* Lines 143-152: the fields handed to URLCheckResponse
URLCheckResponse(is_malicious, databases_queried, result_details) ==
    [is_malicious |-> is_malicious,
     threat_level |-> DictGet(result_details, "threat_level", "safe"),
     threat_type |-> DictGet(result_details, "threat_type", None),
     confidence_score |->
         DictGet(result_details, "confidence_score", IF is_malicious THEN 10 ELSE 0),
     cached |-> DictGet(result_details, "cached", FALSE),
     databases_queried |-> databases_queried]

\* URLCheckResponse's field constraints: confidence_score ge=0.0, le=1.0
ResponseValid(resp) ==
    0 <= resp.confidence_score /\ resp.confidence_score <= ConfidenceMax

\* Variant of lines 154-159: a timeout answered with the default verdict
TimeoutAnswerDefault ==
    [status |-> 200, response |-> Some(URLCheckResponse(FALSE, <<>>, <<>>))]

\* Lines 154-159: the handler's answer when wait_for raises TimeoutError
TimeoutAnswer == [status |-> 503, response |-> Absent]

\* Lines 160-165: the handler's answer on any other exception
ErrorAnswer == [status |-> 500, response |-> Absent]

\* Lines 72-76 and 36-40: the answer when the checker is not ready, or none is set
NotReadyAnswer == [status |-> 503, response |-> Absent]

\* Lines 135-152: the handler's answer once check_url has returned `ret`
\* (of URLCheckResponse's fields, url, response_time_ms and timestamp are
\* left out)
ReturnAnswer(ret) ==
    LET resp == URLCheckResponse(ret.is_malicious, ret.databases_queried,
                                 ret.result_details)
    IN  IF ResponseValid(resp)
        THEN [status |-> 200, response |-> Some(resp)]
        ELSE ErrorAnswer

(***************************************************************************)
(* State                                                                   *)
(***************************************************************************)
\* The requests that can be in flight together
Slots == {1, 2}

\* One request at a time
OneSlot == {1}

\* The cache keys of the requests that pass the validation, and one more for
\* the calls made on the cache directly
RequestKeys == {KeyOf(i) : i \in {j \in Inputs : ValidationStatus(j) = 0}}
Keys == RequestKeys \cup {CacheKey("bad.org", 8080, "/malware.exe")}

\* No HTTP exchange in progress
ExchangeIdle ==
    [pc |-> "idle", header |-> Absent, request_id |-> None, kind |-> None,
     status |-> 0, body_request_id |-> Absent, response_header |-> Absent]

\* The threads that call into the metrics module, and the counters followed
Unlocked == 0
Threads == 1..MaxThreads
Counters == {"requests_total", "responses_total", "other"}

\* A thread outside dispatch and outside incr
IdleThread ==
    [at |-> "idle", pc |-> "out", metric |-> None, amount |-> 0, value |-> 0]

IdleReq ==
    [pc |-> "idle", input |-> Absent, queried |-> <<>>, results |-> <<>>,
     arrival |-> <<>>, elapsed |-> 0, status |-> 0, ret |-> Absent,
     response |-> Absent, raised |-> "none", ready_at_call |-> {},
     checker_set |-> FALSE, timed_out |-> FALSE]

\* Variant of the fan-out that polls the adapters one after the other: only
\* the first adapter that has not answered has its lookup in flight
PendingSequential(q) ==
    LET waiting == SelectSeq(q.queried, LAMBDA l : l \notin Range(q.arrival))
    IN  IF waiting = <<>> THEN {} ELSE {waiting[1]}

\* The adapters of a query that have not answered yet
Pending(q) == Range(q.queried) \ Range(q.arrival)

\* A request answered: the handler has returned or raised HTTPException
Answered(q, answer, ret, raised) ==
    [q EXCEPT !.pc = "done", !.status = answer.status,
              !.response = answer.response, !.ret = ret, !.raised = raised]

\* After construction: nothing initialized, no checker set, an empty cache
InitCommon ==
    /\ now = 0
    /\ cache = <<>>
    /\ instance = FALSE
    /\ ready = [l \in LoaderNames |-> FALSE]
    /\ malware_urls = [l \in FileLoaders |-> {}]
    /\ client = [l \in HTTPLoaders |-> FALSE]
    /\ req = [r \in Slots |-> IdleReq]
    /\ lastSet = [k \in Keys |-> -1]
    /\ origin = [k \in Keys |-> Absent]
    /\ hist = <<>>
    /\ nreq = 0
    /\ exchange = ExchangeIdle
    /\ lock = Unlocked
    /\ counters = [m \in Counters |-> 0]
    /\ thread = [t \in Threads |-> IdleThread]
    /\ passed = [m \in Counters |-> 0]
    /\ orphans = 0

\* The service: the cache enabled (the default) or disabled, a capacity that
\* holds entries or none, and the overall deadline above or at the per-source
\* timeout
Init ==
    /\ InitCommon
    /\ ttl = CacheTtl
    /\ \E cfg \in {<<TRUE, MaxSize, api_request_timeout_seconds>>,
                    <<TRUE, 0, api_request_timeout_seconds>>,
                    <<TRUE, MaxSize, db_query_timeout_seconds>>,
                    <<FALSE, MaxSize, api_request_timeout_seconds>>} :
          enabled = cfg[1] /\ maxsize = cfg[2] /\ deadline = cfg[3]

(***************************************************************************)
(* Adapter lifecycle                                                       *)
(***************************************************************************)
\* Variant of FileLoader.initialize: a missing file is an error
FileInitializeStrict(isready, urls, outcome) ==
    CASE outcome = "loaded" ->
            [ready |-> TRUE, malware_urls |-> FileContent, raised |-> FALSE]
      [] OTHER -> [ready |-> isready, malware_urls |-> urls, raised |-> TRUE]

\* FileLoader.initialize: the file is missing, loads, or fails to load (the
\* exception is raised again, _ready is left as it was)
FileInitialize(isready, urls, outcome) ==
    CASE outcome = "missing" -> [ready |-> TRUE, malware_urls |-> urls, raised |-> FALSE]
      [] outcome = "loaded" ->
            [ready |-> TRUE, malware_urls |-> FileContent, raised |-> FALSE]
      [] OTHER -> [ready |-> isready, malware_urls |-> urls, raised |-> TRUE]

\* Variant of HTTPLoader.initialize: ready only when the probe answers below 500
HTTPInitializeStrict(probe) ==
    CASE probe = "ok" -> [ready |-> TRUE, client |-> TRUE, raised |-> FALSE]
      [] probe = "5xx" -> [ready |-> FALSE, client |-> TRUE, raised |-> FALSE]
      [] OTHER -> [ready |-> FALSE, client |-> TRUE, raised |-> TRUE]

\* HTTPLoader.initialize: the client is created, then the probe answers below
\* 500, answers 5xx, or fails and is caught; _ready = True on each path
HTTPInitialize(probe) ==
    CASE probe = "ok" -> [ready |-> TRUE, client |-> TRUE, raised |-> FALSE]
      [] probe = "5xx" -> [ready |-> TRUE, client |-> TRUE, raised |-> FALSE]
      [] OTHER -> [ready |-> TRUE, client |-> TRUE, raised |-> FALSE]

\* Variant of MalwareChecker.initialize: a source's configuration error is
\* raised to the caller
CheckerInitializePropagates(failed) == failed # {}

\* Whether MalwareChecker.initialize raises, given the sources whose
\* initialize raised: a configuration error is fatal to that source only
CheckerInitializeRaises(failed) == FALSE

\* main.lifespan lines 111-114: create the checker, initialize every adapter
\* (a source whose initialize fails stays not ready, the others go on),
\* publish the checker unless initialize raised
Startup ==
    /\ ~instance
    /\ \E outcome \in {"missing", "loaded", "error"}, probe \in {"ok", "5xx", "error"} :
          LET failed == {l \in LoaderNames :
                            IF l \in FileLoaders
                            THEN FileInitialize(ready[l], malware_urls[l], outcome).raised
                            ELSE HTTPInitialize(probe).raised}
          IN  /\ ready' = [l \in LoaderNames |->
                             IF l \in FileLoaders
                             THEN FileInitialize(ready[l], malware_urls[l], outcome).ready
                             ELSE HTTPInitialize(probe).ready]
              /\ malware_urls' = [l \in FileLoaders |->
                             FileInitialize(ready[l], malware_urls[l], outcome).malware_urls]
              /\ client' = [l \in HTTPLoaders |-> HTTPInitialize(probe).client]
              /\ instance' = ~CheckerInitializeRaises(failed)
              /\ hist' = <<[op |-> "startup", failed |-> failed]>>
    /\ UNCHANGED <<now, enabled, maxsize, ttl, deadline, cache, req, lastSet,
                   origin, nreq,
                   exchange, lock, counters, thread, passed, orphans>>

\* Variant of HTTPLoader.shutdown: closing a client that is closed raises
ShutdownRaisesOnClosed(isready, hasclient) == hasclient /\ ~isready

\* Whether shutdown raises: BaseLoader.shutdown only assigns, and
\* HTTPLoader.shutdown closes the client if there is one (closing a closed
\* httpx client does nothing)
ShutdownRaises(isready, hasclient) == FALSE

\* BaseLoader.shutdown / HTTPLoader.shutdown: _ready = False (the dataset and
\* the closed client stay)
LoaderShutdown(isready) == FALSE

\* main.lifespan lines 122-123: the checker shuts every adapter down
Shutdown ==
    /\ instance
    /\ \E l \in LoaderNames : ready[l]
    /\ ready' = [l \in LoaderNames |-> LoaderShutdown(ready[l])]
    /\ UNCHANGED <<now, enabled, maxsize, ttl, deadline, cache, instance,
                   malware_urls, client, req, lastSet, origin, hist, nreq,
                   exchange, lock, counters, thread, passed, orphans>>

(***************************************************************************)
(* A request: lookup_url, check_url and the lookups it awaits              *)
(***************************************************************************)
\* lookup_url up to its first suspension: the readiness gate, the validation,
\* then check_url's cache lookup and, on a miss, the fan-out to the adapters
\* that are ready now
RequestStart(r, i) ==
    /\ req[r].pc \in {"idle", "done"}
    /\ nreq < MaxReq
    /\ nreq' = nreq + 1
    /\ LET q == [IdleReq EXCEPT !.input = Some(i),
                               !.checker_set = instance,
                               !.ready_at_call = {l \in LoaderNames : ready[l]}]
           cached == URLCacheGet(cache, enabled, KeyOf(i), now)
       IN  req' = [req EXCEPT ![r] =
              IF ~instance \/ ~IsReady(ready)
              THEN Answered(q, NotReadyAnswer, Absent, "none")
              ELSE IF ValidationStatus(i) # 0
              THEN Answered(q, [status |-> ValidationStatus(i), response |-> Absent],
                            Absent, "none")
              ELSE IF cached # Absent
              THEN LET ret == HitResult(TheValue(cached))
                   IN  Answered(q, ReturnAnswer(ret), Some(ret),
                                IF ReturnAnswer(ret).status = 200
                                THEN "none" ELSE "response")
              ELSE [q EXCEPT !.pc = "waiting", !.queried = ReadyLoaders(ready)]]
    /\ UNCHANGED <<now, enabled, maxsize, ttl, deadline, cache, instance, ready,
                   malware_urls, client, lastSet, origin, hist,
                   exchange, lock, counters, thread, passed, orphans>>

\* One awaited lookup has produced its verdict
Arrive(q, l, verdict) ==
    [q EXCEPT !.results = (l :> verdict) @@ q.results,
              !.arrival = Append(q.arrival, l)]

\* FileLoader.lookup runs (it has no suspension point)
FileLookupDone(r, l) ==
    /\ req[r].pc = "waiting"
    /\ l \in Pending(req[r]) \cap FileLoaders
    /\ LET i == TheValue(req[r].input)
       IN  req' = [req EXCEPT ![r] =
              Arrive(req[r], l,
                     FileLookup(l, ready[l], malware_urls[l], HostOf(i), PortOf(i),
                                PathOf(i)))]
    /\ UNCHANGED <<now, enabled, maxsize, ttl, deadline, cache, instance, ready,
                   malware_urls, client, lastSet, origin, hist, nreq,
                   exchange, lock, counters, thread, passed, orphans>>

\* HTTPLoader.lookup returns within the adapter's timeout (the file lookups,
\* started before it, have run by then)
HTTPLookupDone(r, l, outcome) ==
    /\ req[r].pc = "waiting"
    /\ l \in Pending(req[r]) \cap HTTPLoaders
    /\ Pending(req[r]) \cap FileLoaders = {}
    /\ req[r].elapsed < timeout_seconds(l)
    /\ req' = [req EXCEPT ![r] =
          Arrive(req[r], l, HTTPLookup(l, ready[l], client[l], outcome))]
    /\ UNCHANGED <<now, enabled, maxsize, ttl, deadline, cache, instance, ready,
                   malware_urls, client, lastSet, origin, hist, nreq,
                   exchange, lock, counters, thread, passed, orphans>>

\* A lookup has not returned within the adapter's timeout_seconds: no verdict
AdapterTimeout(r, l) ==
    /\ req[r].pc = "waiting"
    /\ l \in Pending(req[r])
    /\ Pending(req[r]) \cap FileLoaders = {}
    /\ req[r].elapsed >= timeout_seconds(l)
    /\ req' = [req EXCEPT ![r] = Arrive(req[r], l, NoVerdict(l))]
    /\ UNCHANGED <<now, enabled, maxsize, ttl, deadline, cache, instance, ready,
                   malware_urls, client, lastSet, origin, hist, nreq,
                   exchange, lock, counters, thread, passed, orphans>>

\* Every lookup is in: check_url merges, writes the cache and returns, and
\* lookup_url builds its response
Finish(r) ==
    /\ req[r].pc = "waiting"
    /\ Pending(req[r]) = {}
    /\ LET q == req[r]
           key == KeyOf(TheValue(q.input))
           merged == Merge(Collected(q))
           set == URLCacheSet(cache, enabled, key, merged.is_malicious, now,
                              maxsize, ttl)
           ret == MissResult(merged, q.queried)
       IN  /\ cache' = set.cache
           /\ lastSet' = IF set.stored THEN [lastSet EXCEPT ![key] = now] ELSE lastSet
           /\ origin' = IF set.stored THEN [origin EXCEPT ![key] =
                                 Some([is_malicious |-> merged.is_malicious,
                                       threat_level |-> merged.threat_level])]
                        ELSE origin
           /\ req' = [req EXCEPT ![r] =
                 IF set.raised
                 THEN Answered(q, ErrorAnswer, Absent, "check_url")
                 ELSE Answered(q, ReturnAnswer(ret), Some(ret),
                               IF ReturnAnswer(ret).status = 200
                               THEN "none" ELSE "response")]
    /\ UNCHANGED <<now, enabled, maxsize, ttl, deadline, instance, ready,
                   malware_urls, client, hist, nreq,
                   exchange, lock, counters, thread, passed, orphans>>

\* Variant of Deadline: the abandoned check_url still writes a (non-malicious)
\* entry for its key before the 503 is given
DeadlineWrites(r) ==
    /\ req[r].pc = "waiting"
    /\ Pending(req[r]) \cap FileLoaders = {}
    /\ req[r].elapsed >= deadline
    /\ LET key == KeyOf(TheValue(req[r].input))
           set == URLCacheSet(cache, enabled, key, FALSE, now, maxsize, ttl)
       IN  /\ cache' = set.cache
           /\ lastSet' = IF set.stored THEN [lastSet EXCEPT ![key] = now] ELSE lastSet
           /\ origin' = IF set.stored THEN [origin EXCEPT ![key] =
                                 Some([is_malicious |-> FALSE,
                                       threat_level |-> "safe"])]
                        ELSE origin
    /\ req' = [req EXCEPT ![r] =
          Answered([req[r] EXCEPT !.timed_out = TRUE], TimeoutAnswer, Absent, "none")]
    /\ UNCHANGED <<now, enabled, maxsize, ttl, deadline, instance, ready,
                   malware_urls, client, hist, nreq,
                   exchange, lock, counters, thread, passed, orphans>>

\* asyncio.wait_for's timeout fires: check_url is cancelled where it waits
Deadline(r) ==
    /\ req[r].pc = "waiting"
    /\ Pending(req[r]) \cap FileLoaders = {}
    /\ req[r].elapsed >= deadline
    /\ req' = [req EXCEPT ![r] =
          Answered([req[r] EXCEPT !.timed_out = TRUE], TimeoutAnswer, Absent, "none")]
    /\ UNCHANGED <<now, enabled, maxsize, ttl, deadline, cache, instance, ready,
                   malware_urls, client, lastSet, origin, hist, nreq,
                   exchange, lock, counters, thread, passed, orphans>>

\* Work the event loop does without waiting: a file lookup, a timer that is
\* due, the continuation of check_url
Due(q) ==
    /\ q.pc = "waiting"
    /\ \/ Pending(q) = {}
       \/ Pending(q) \cap FileLoaders # {}
       \/ \E l \in Pending(q) : q.elapsed >= timeout_seconds(l)
       \/ q.elapsed >= deadline

\* Time passes while every coroutine is suspended; the clock is followed up to
\* MaxTime, and past it only as long as a request is still waiting
Tick ==
    /\ \/ now + TimeStep <= MaxTime
       \/ \E r \in Slots : req[r].pc = "waiting"
    /\ \A r \in Slots : ~Due(req[r])
    /\ now' = now + TimeStep
    /\ req' = [r \in Slots |->
                 IF req[r].pc = "waiting"
                 THEN [req[r] EXCEPT !.elapsed = @ + TimeStep] ELSE req[r]]
    /\ UNCHANGED <<enabled, maxsize, ttl, deadline, cache, instance, ready,
                   malware_urls, client, lastSet, origin, hist, nreq,
                   exchange, lock, counters, thread, passed, orphans>>

Next ==
    \/ Startup
    \/ Shutdown
    \/ \E r \in OneSlot, i \in Inputs : RequestStart(r, i)
    \/ \E r \in OneSlot, l \in FileLoaders : FileLookupDone(r, l)
    \/ \E r \in OneSlot, l \in HTTPLoaders :
          \E o \in HTTPOutcomes(l) : HTTPLookupDone(r, l, o)
    \/ \E r \in OneSlot, l \in LoaderNames : AdapterTimeout(r, l)
    \/ \E r \in OneSlot : Finish(r)
    \/ \E r \in OneSlot : Deadline(r)
    \/ Tick

Spec == Init /\ [][Next]_vars

\* Finish(r) is enabled
FinishDue(r) == req[r].pc = "waiting" /\ Pending(req[r]) = {}

\* The event loop keeps running: time passes, timers that are due fire, a
\* coroutine that can continue does (weak fairness of Finish, its enabling
\* condition written out). Nothing obliges a remote endpoint to answer.
EventLoop ==
    /\ WF_vars(Tick)
    /\ \A r \in OneSlot :
          /\ WF_vars(\E l \in FileLoaders : FileLookupDone(r, l))
          /\ WF_vars(\E l \in LoaderNames : AdapterTimeout(r, l))
          /\ []<>(~FinishDue(r)) \/ []<><<Finish(r)>>_vars
          /\ WF_vars(Deadline(r))

\* The service followed through its first request
FirstRequest ==
    \/ Startup
    \/ Shutdown
    \/ \E r \in OneSlot, i \in Inputs : nreq = 0 /\ RequestStart(r, i)
    \/ \E r \in OneSlot, l \in FileLoaders : FileLookupDone(r, l)
    \/ \E r \in OneSlot, l \in HTTPLoaders :
          \E o \in HTTPOutcomes(l) : HTTPLookupDone(r, l, o)
    \/ \E r \in OneSlot, l \in LoaderNames : AdapterTimeout(r, l)
    \/ \E r \in OneSlot : Finish(r)
    \/ \E r \in OneSlot : Deadline(r)
    \/ Tick

LiveSpec == Init /\ [][FirstRequest]_vars /\ EventLoop

(***************************************************************************)
(* The URLCache on its own, called as the unit tests call it               *)
(***************************************************************************)
\* The last two calls, oldest first
Remember(h, e) == IF h = <<>> THEN <<e>> ELSE <<h[Len(h)], e>>

InitCache ==
    /\ InitCommon
    /\ enabled \in BOOLEAN
    /\ maxsize \in 0..MaxSize
    /\ ttl \in {TestTtl, CacheTtl}
    /\ deadline = api_request_timeout_seconds

\* cache.set(key, value)
CacheSet(key, value) ==
    /\ LET set == URLCacheSet(cache, enabled, key, value, now, maxsize, ttl)
       IN  /\ ~set.raised
           /\ cache' = set.cache
           /\ lastSet' = IF set.stored THEN [lastSet EXCEPT ![key] = now] ELSE lastSet
           /\ origin' = IF set.stored THEN [origin EXCEPT ![key] = Some(value)]
                        ELSE origin
    /\ hist' = Remember(hist, [op |-> "set", key |-> key, time |-> now, value |-> value])
    /\ UNCHANGED <<now, enabled, maxsize, ttl, deadline, instance, ready,
                   malware_urls, client, req, nreq,
                   exchange, lock, counters, thread, passed, orphans>>

\* cache.get(key)
CacheGet(key) ==
    /\ hist' = Remember(hist, [op |-> "get", key |-> key, time |-> now,
                               result |-> URLCacheGet(cache, enabled, key, now)])
    /\ UNCHANGED <<now, enabled, maxsize, ttl, deadline, cache, instance, ready,
                   malware_urls, client, req, lastSet, origin, nreq,
                   exchange, lock, counters, thread, passed, orphans>>

\* cache.clear()
CacheClear ==
    /\ cache' = URLCacheClear(cache)
    /\ lastSet' = [k \in Keys |-> -1]
    /\ origin' = [k \in Keys |-> Absent]
    /\ hist' = Remember(hist, [op |-> "clear", time |-> now])
    /\ UNCHANGED <<now, enabled, maxsize, ttl, deadline, instance, ready,
                   malware_urls, client, req, nreq,
                   exchange, lock, counters, thread, passed, orphans>>

NextCache ==
    \/ \E k \in Keys, v \in BOOLEAN : CacheSet(k, v)
    \/ \E k \in Keys : CacheGet(k)
    \/ CacheClear
    \/ Tick

SpecCache == InitCache /\ [][NextCache]_vars

(***************************************************************************)
(* The adapters on their own: ThreatInfo, initialize, shutdown and lookup  *)
(* called directly, in any order, any number of times                      *)
(***************************************************************************)
\* threat_level not passed to ThreatInfo(...)
Unset == "unset"

\* The adapters' state
Adapters == [ready |-> ready, client |-> client, malware_urls |-> malware_urls]

\* The last call was a shutdown of l
JustShutDown(l) == hist # <<>> /\ hist[1].op = "shutdown" /\ hist[1].loader = l

\* The last call was an initialize of l that raised
JustFailed(l) ==
    /\ hist # <<>>
    /\ hist[1].op = "initialize"
    /\ hist[1].loader = l
    /\ hist[1].raised

InitLoader ==
    /\ InitCommon
    /\ enabled = TRUE
    /\ maxsize = MaxSize
    /\ ttl = CacheTtl
    /\ deadline = api_request_timeout_seconds

\* ThreatInfo(is_malicious=..., threat_type=..., [threat_level=...], ...)
Construct(is_malicious, threat_type, threat_level, confidence_score) ==
    /\ hist' = <<[op |-> "ThreatInfo", is_malicious |-> is_malicious,
                  threat_level |-> threat_level,
                  result |-> ThreatInfo(is_malicious, threat_type,
                                        IF threat_level = Unset THEN "safe"
                                        ELSE threat_level,
                                        confidence_score, {}, None)]>>
    /\ UNCHANGED <<now, enabled, maxsize, ttl, deadline, cache, instance, ready,
                   malware_urls, client, req, lastSet, origin, nreq,
                   exchange, lock, counters, thread, passed, orphans>>

\* await loader.initialize()
InitializeCall(l, outcome) ==
    /\ outcome \in IF l \in FileLoaders THEN {"missing", "loaded", "error"}
                                        ELSE {"ok", "5xx", "error"}
    /\ LET f == FileInitialize(ready[l], malware_urls[l], outcome)
           h == HTTPInitialize(outcome)
       IN  /\ ready' = [ready EXCEPT ![l] = IF l \in FileLoaders THEN f.ready
                                                               ELSE h.ready]
           /\ malware_urls' = IF l \in FileLoaders
                              THEN [malware_urls EXCEPT ![l] = f.malware_urls]
                              ELSE malware_urls
           /\ client' = IF l \in HTTPLoaders THEN [client EXCEPT ![l] = h.client]
                                             ELSE client
           /\ hist' = <<[op |-> "initialize", loader |-> l, outcome |-> outcome,
                         raised |-> IF l \in FileLoaders THEN f.raised ELSE h.raised,
                         before |-> Adapters]>>
    /\ UNCHANGED <<now, enabled, maxsize, ttl, deadline, cache, instance, req,
                   lastSet, origin, nreq,
                   exchange, lock, counters, thread, passed, orphans>>

\* await loader.shutdown()
ShutdownCall(l) ==
    /\ LET raised == ShutdownRaises(ready[l], l \in HTTPLoaders /\ client[l])
       IN  /\ ready' = IF raised THEN ready
                       ELSE [ready EXCEPT ![l] = LoaderShutdown(ready[l])]
           /\ hist' = <<[op |-> "shutdown", loader |-> l, raised |-> raised,
                         again |-> JustShutDown(l), before |-> Adapters]>>
    /\ UNCHANGED <<now, enabled, maxsize, ttl, deadline, cache, instance,
                   malware_urls, client, req, lastSet, origin, nreq,
                   exchange, lock, counters, thread, passed, orphans>>

\* The arguments of the direct lookups on a file loader
LookupHosts == {"evil.net", "EVIL.NET", " evil.net", "google.com"}
LookupPorts == {80, 8080}
LookupPaths == {"/trojan", "/", " "}

\* await loader.lookup(hostname, port, path) on a file loader
FileLookupCall(l, hostname, port, path) ==
    /\ l \in FileLoaders
    /\ hist' = <<[op |-> "lookup", loader |-> l, hostname |-> hostname,
                  port |-> port, path |-> path,
                  kind |-> "file", status_code |-> 0, raised |-> FALSE,
                  before |-> Adapters, after_failure |-> JustFailed(l),
                  error |-> FileLookupError(ready[l]),
                  result |-> FileLookup(l, ready[l], malware_urls[l], hostname,
                                        port, path)]>>
    /\ UNCHANGED <<now, enabled, maxsize, ttl, deadline, cache, instance, ready,
                   malware_urls, client, req, lastSet, origin, nreq,
                   exchange, lock, counters, thread, passed, orphans>>

\* await loader.lookup(hostname, port, path) on an HTTP loader, the upstream
\* request ending as `outcome`
HTTPLookupCall(l, outcome) ==
    /\ l \in HTTPLoaders
    /\ hist' = <<[op |-> "lookup", loader |-> l, hostname |-> "evil.net",
                  kind |-> outcome.kind, status_code |-> outcome.status_code,
                  raised |-> FALSE, before |-> Adapters,
                  after_failure |-> JustFailed(l),
                  error |-> HTTPLookupError(ready[l], client[l], outcome),
                  result |-> HTTPLookup(l, ready[l], client[l], outcome)]>>
    /\ UNCHANGED <<now, enabled, maxsize, ttl, deadline, cache, instance, ready,
                   malware_urls, client, req, lastSet, origin, nreq,
                   exchange, lock, counters, thread, passed, orphans>>

\* get_status(): per source, what its is_ready() answers now
GetStatus(rdy) == [l \in LoaderNames |-> rdy[l]]

\* urlinfo.health_check: 503 from get_malware_checker when no checker is set,
\* else "healthy" or "degraded" after checker.is_ready(), with get_status()
HealthCheck(hasinstance, rdy) ==
    IF ~hasinstance
    THEN [status_code |-> 503, status |-> None, loader_status |-> None]
    ELSE [status_code |-> 200,
          status |-> IF IsReady(rdy) THEN "healthy" ELSE "degraded",
          loader_status |-> GetStatus(rdy)]

\* GET /urlinfo/health, a checker over the adapters being set or not
HealthCall(hasinstance) ==
    /\ hist' = <<[op |-> "health", checker_set |-> hasinstance,
                  is_ready |-> IsReady(ready),
                  result |-> HealthCheck(hasinstance, ready), before |-> Adapters]>>
    /\ UNCHANGED <<now, enabled, maxsize, ttl, deadline, cache, instance, ready,
                   malware_urls, client, req, lastSet, origin, nreq,
                   exchange, lock, counters, thread, passed, orphans>>

NextLoader ==
    \/ \E set \in BOOLEAN : HealthCall(set)
    \/ \E m \in BOOLEAN, t \in {None, "phishing"},
          lv \in Range(ThreatLevels) \cup {Unset}, c \in {0, 5, 10} :
          Construct(m, t, lv, c)
    \/ \E l \in LoaderNames, o \in {"missing", "loaded", "error", "ok", "5xx"} :
          InitializeCall(l, o)
    \/ \E l \in LoaderNames : ShutdownCall(l)
    \/ \E l \in FileLoaders, h \in LookupHosts, p \in LookupPorts,
          pa \in LookupPaths : FileLookupCall(l, h, p, pa)
    \/ \E l \in HTTPLoaders : \E o \in HTTPOutcomes(l) : HTTPLookupCall(l, o)

SpecLoader == InitLoader /\ [][NextLoader]_vars

(***************************************************************************)
(* Two requests for the same URL in flight together: they arrive at the    *)
(* same time and every lookup answers (with a verdict or a failure) before *)
(* any timer is due                                                         *)
(***************************************************************************)
\* GET /urlinfo/1/evil.net/ : the URL both requests ask about
PairInput == [hostname |-> "evil.net", colon |-> FALSE, port_text |-> "", path |-> ""]

InitPair ==
    /\ InitCommon
    /\ enabled = TRUE
    /\ maxsize = MaxSize
    /\ ttl = CacheTtl
    /\ deadline = api_request_timeout_seconds

NextPair ==
    \/ Startup
    \/ \E r \in Slots : instance /\ RequestStart(r, PairInput)
    \/ \E r \in Slots, l \in FileLoaders : FileLookupDone(r, l)
    \/ \E r \in Slots, l \in HTTPLoaders :
          \E o \in HTTPOutcomes(l) : HTTPLookupDone(r, l, o)
    \/ \E r \in Slots : Finish(r)

SpecPair == InitPair /\ [][NextPair]_vars

(***************************************************************************)
(* The handler's validation and the arguments it hands to check_url, for   *)
(* requests made while the checker is set and ready                        *)
(***************************************************************************)
\* The requests tried: two hostnames, no port segment or one of seven, and
\* three paths
HandlerInputs ==
    {[hostname |-> h, colon |-> t # "none", port_text |-> IF t = "none" THEN "" ELSE t,
      path |-> p] :
        h \in {"evil.net", "a"},
        t \in {"none", "80", "443", "0", "70000", "-1", "65535", "abc"},
        p \in {"", "index.html", "LONG"}}

InitHandler ==
    /\ InitCommon
    /\ enabled = TRUE
    /\ maxsize = MaxSize
    /\ ttl = CacheTtl
    /\ deadline = api_request_timeout_seconds

\* lookup_url lines 78-134: the validation, then checker.check_url(hostname,
\* port, path) with the arguments computed from the request
HandleCall(i) ==
    /\ hist' = Remember(hist,
                  [op |-> "lookup_url", input |-> i, status |-> ValidationStatus(i),
                   args |-> IF ValidationStatus(i) = 0
                            THEN Some([hostname |-> HostOf(i), port |-> PortOf(i),
                                       path |-> PathOf(i)])
                            ELSE Absent])
    /\ UNCHANGED <<now, enabled, maxsize, ttl, deadline, cache, instance, ready,
                   malware_urls, client, req, lastSet, origin, nreq,
                   exchange, lock, counters, thread, passed, orphans>>

NextHandler == \E i \in HandlerInputs : HandleCall(i)

SpecHandler == InitHandler /\ [][NextHandler]_vars

(***************************************************************************)
(* Registration: main.create_malware_checker over the configurations      *)
(***************************************************************************)
\* File paths that can be configured, each as its "/"-separated segments
ConfigPaths ==
    {<<"data", "malware_lists", "sample_malware.csv">>, <<"data", "extra.csv">>,
     <<"backup", "sample_malware.csv">>, <<"sample_malware.csv">>}

\* Endpoint URLs that can be configured
ConfigUrls == {"https://feeds.example/check", "https://mirror.example/check"}

\* The lists of at most n elements of S
ListsUpTo(S, n) == UNION {[1..k -> S] : k \in 0..n}

\* file_path.split('/')[-1]
LastSegment(path) == path[Len(path)]

\* The names create_malware_checker gives its loaders, in registration order:
\* f"file-{file_path.split('/')[-1]}" per file, then f"http-endpoint-{idx}"
RegisteredNames(files, urls) ==
    [i \in 1..Len(files) |-> "file-" \o LastSegment(files[i])]
        \o [i \in 1..Len(urls) |-> "http-endpoint-" \o ToString(i - 1)]

InitConfig ==
    /\ InitCommon
    /\ enabled = TRUE
    /\ maxsize = MaxSize
    /\ ttl = CacheTtl
    /\ deadline = api_request_timeout_seconds

\* create_malware_checker() under settings.malware_db_files = files and
\* settings.malware_db_http_urls = urls
CreateChecker(files, urls) ==
    /\ hist' = <<[op |-> "create_malware_checker", files |-> files, urls |-> urls,
                  names |-> RegisteredNames(files, urls)]>>
    /\ UNCHANGED <<now, enabled, maxsize, ttl, deadline, cache, instance, ready,
                   malware_urls, client, req, lastSet, origin, nreq,
                   exchange, lock, counters, thread, passed, orphans>>

NextConfig ==
    \E files \in ListsUpTo(ConfigPaths, MaxFiles), urls \in ListsUpTo(ConfigUrls, MaxUrls) :
        CreateChecker(files, urls)

SpecConfig == InitConfig /\ [][NextConfig]_vars

(***************************************************************************)
(* One HTTP exchange through the middleware of main.py. From the outside   *)
(* in: request_id_middleware, RequestTimeoutMiddleware,                    *)
(* ErrorHandlingMiddleware, CORS, then the exception handlers and the      *)
(* route. Each step runs up to the next await call_next or return.         *)
(***************************************************************************)
\* The X-Request-ID header of the request: none, empty, or an id of the client
ClientHeaders == {Absent, Some(""), Some("abc-123"), Some("req-0123456789ab")}

\* What generate_request_id() can return: f"req-{uuid.uuid4().hex[:12]}"
GeneratedIds == {"req-00000000000a", "req-fedcba987654", "req-1a2b3c4d5e6f"}

\* The string is "req-" followed by 12 hexadecimal characters
HexDigits ==
    {"0", "1", "2", "3", "4", "5", "6", "7", "8", "9", "a", "b", "c", "d", "e", "f"}
IsGenerated(id) ==
    /\ Len(id) = 16
    /\ SubSeq(id, 1, 4) = "req-"
    /\ \A k \in 5..16 : SubSeq(id, k, k) \in HexDigits

\* request.headers.get("X-Request-ID", "unknown")
HeaderOrUnknown(header) == IF header = Absent THEN "unknown" ELSE TheValue(header)

\* What the route comes to: a response of its own, an HTTPException of the
\* handler (urlinfo.py), an error answered by the framework's own handler
\* (no route, 404) or an exception nothing below the middleware handles
RouteOutcomes ==
    {[kind |-> "response", status |-> 200],
     [kind |-> "HTTPException", status |-> 400],
     [kind |-> "HTTPException", status |-> 414],
     [kind |-> "HTTPException", status |-> 503],
     [kind |-> "HTTPException", status |-> 500],
     [kind |-> "framework", status |-> 404],
     [kind |-> "Exception", status |-> 500]}

InitCorrelation ==
    /\ InitCommon
    /\ enabled = TRUE
    /\ maxsize = MaxSize
    /\ ttl = CacheTtl
    /\ deadline = api_request_timeout_seconds

\* request_id_middleware up to await call_next: the id of the exchange is the
\* request's header when it is there and not empty, else a generated one
RequestIdBefore(header, generated) ==
    /\ exchange.pc \in {"idle", "done"}
    /\ exchange' = [ExchangeIdle EXCEPT
                       !.pc = "routing",
                       !.header = header,
                       !.request_id = IF header # Absent /\ TheValue(header) # ""
                                      THEN TheValue(header) ELSE generated]
    /\ UNCHANGED <<now, enabled, maxsize, ttl, deadline, cache, instance, ready,
                   malware_urls, client, req, lastSet, origin, hist, nreq,
                   lock, counters, thread, passed, orphans>>

\* The route and whatever turns its exception into a response:
\* http_exception_handler for an HTTPException, ErrorHandlingMiddleware for
\* any other exception
Route(outcome) ==
    /\ exchange.pc = "routing"
    /\ exchange' = [exchange EXCEPT
          !.pc = "returning",
          !.kind = outcome.kind,
          !.status = outcome.status,
          !.body_request_id =
              IF outcome.kind \in {"HTTPException", "Exception"}
              THEN Some(HeaderOrUnknown(exchange.header)) ELSE Absent,
          !.response_header =
              IF outcome.kind = "HTTPException"
              THEN Some(HeaderOrUnknown(exchange.header)) ELSE Absent]
    /\ UNCHANGED <<now, enabled, maxsize, ttl, deadline, cache, instance, ready,
                   malware_urls, client, req, lastSet, origin, hist, nreq,
                   lock, counters, thread, passed, orphans>>

\* request_id_middleware after call_next: response.headers["X-Request-ID"]
RequestIdAfter ==
    /\ exchange.pc = "returning"
    /\ exchange' = [exchange EXCEPT !.pc = "done",
                                    !.response_header = Some(exchange.request_id)]
    /\ UNCHANGED <<now, enabled, maxsize, ttl, deadline, cache, instance, ready,
                   malware_urls, client, req, lastSet, origin, hist, nreq,
                   lock, counters, thread, passed, orphans>>

NextCorrelation ==
    \/ \E h \in ClientHeaders, g \in GeneratedIds : RequestIdBefore(h, g)
    \/ \E o \in RouteOutcomes : Route(o)
    \/ RequestIdAfter

SpecCorrelation == InitCorrelation /\ [][NextCorrelation]_vars

(***************************************************************************)
(* URLValidator (services/url_validator.py) on strings, with what          *)
(* urllib.parse.urlparse does to an http(s) URL written out.               *)
(***************************************************************************)
\* s[k-1:]
From(s, k) == SubSeq(s, k, Len(s))

\* s.startswith(p) and p in s
StartsWith(s, p) == Len(s) >= Len(p) /\ SubSeq(s, 1, Len(p)) = p
HasSub(s, p) == \E k \in 1..(Len(s) - Len(p) + 1) : SubSeq(s, k, k + Len(p) - 1) = p

\* The first and the last position of a character of cs in s, 0 when none
IndexOf(s, cs) ==
    LET I == {k \in 1..Len(s) : SubSeq(s, k, k) \in cs}
    IN  IF I = {} THEN 0 ELSE CHOOSE k \in I : \A j \in I : k <= j
LastIndexOf(s, cs) ==
    LET I == {k \in 1..Len(s) : SubSeq(s, k, k) \in cs}
    IN  IF I = {} THEN 0 ELSE CHOOSE k \in I : \A j \in I : k >= j

\* s * n
RECURSIVE Rep(_, _)
Rep(s, n) ==
    IF n <= 0 THEN ""
    ELSE IF n = 1 THEN s
    ELSE LET h == Rep(s, n \div 2)
         IN  IF n % 2 = 1 THEN h \o h \o s ELSE h \o h

\* str.lower() on ASCII
UpperCase == "ABCDEFGHIJKLMNOPQRSTUVWXYZ"
LowerCase == "abcdefghijklmnopqrstuvwxyz"
LowerChar(c) ==
    LET I == {k \in 1..26 : SubSeq(UpperCase, k, k) = c}
    IN  IF I = {} THEN c ELSE LET k == CHOOSE j \in I : TRUE IN SubSeq(LowerCase, k, k)
RECURSIVE Lower(_)
Lower(s) ==
    IF Len(s) <= 1 THEN LowerChar(s)
    ELSE Lower(SubSeq(s, 1, Len(s) \div 2)) \o Lower(From(s, Len(s) \div 2 + 1))

\* str.isdigit() on ASCII and int() of a string of digits
Digits == {"0", "1", "2", "3", "4", "5", "6", "7", "8", "9"}
IsDigits(s) == s # "" /\ \A k \in 1..Len(s) : SubSeq(s, k, k) \in Digits
RECURSIVE IntOf(_)
IntOf(s) ==
    IF s = "" THEN 0
    ELSE IntOf(SubSeq(s, 1, Len(s) - 1)) * 10
            + (CHOOSE n \in 0..9 : ToString(n) = SubSeq(s, Len(s), Len(s)))

\* c.isalnum() on ASCII
IsAlnum(c) ==
    \/ c \in Digits
    \/ \E k \in 1..26 : SubSeq(UpperCase, k, k) = c \/ SubSeq(LowerCase, k, k) = c

\* urlparse(url) of a url that starts with http:// or https://. raised: the
\* ValueError of a netloc with one bracket only
urlparse(url) ==
    LET scheme == IF StartsWith(url, "https://") THEN "https" ELSE "http"
        rest == From(url, Len(scheme) + 4)
        i == IndexOf(rest, {"/", "?", "#"})
        netloc == IF i = 0 THEN rest ELSE SubSeq(rest, 1, i - 1)
        after == IF i = 0 THEN "" ELSE From(rest, i)
        f == IndexOf(after, {"#"})
        fragment == IF f = 0 THEN "" ELSE From(after, f + 1)
        nofragment == IF f = 0 THEN after ELSE SubSeq(after, 1, f - 1)
        q == IndexOf(nofragment, {"?"})
        query == IF q = 0 THEN "" ELSE From(nofragment, q + 1)
        withparams == IF q = 0 THEN nofragment ELSE SubSeq(nofragment, 1, q - 1)
        slash == LastIndexOf(withparams, {"/"})
        semi == IndexOf(From(withparams, slash + 1), {";"})
        path == IF semi = 0 THEN withparams
                ELSE SubSeq(withparams, 1, slash + semi - 1)
    IN  [raised |-> HasSub(netloc, "[") # HasSub(netloc, "]"),
         scheme |-> scheme, netloc |-> netloc, path |-> path,
         query |-> query, fragment |-> fragment]

\* ParseResult._hostinfo: the host and the port text of the netloc
hostinfo(netloc) ==
    LET info == From(netloc, LastIndexOf(netloc, {"@"}) + 1)
        b == IndexOf(info, {"["})
        bracketed == From(info, b + 1)
        c == IndexOf(bracketed, {"]"})
        tail == IF c = 0 THEN "" ELSE From(bracketed, c + 1)
        tcolon == IndexOf(tail, {":"})
        colon == IndexOf(info, {":"})
    IN  IF b # 0
        THEN [hostname |-> IF c = 0 THEN bracketed ELSE SubSeq(bracketed, 1, c - 1),
              port |-> IF tcolon = 0 THEN "" ELSE From(tail, tcolon + 1)]
        ELSE [hostname |-> IF colon = 0 THEN info ELSE SubSeq(info, 1, colon - 1),
              port |-> IF colon = 0 THEN "" ELSE From(info, colon + 1)]

\* ParseResult.hostname: lower-cased, "" standing for None
hostname(parsed) == Lower(hostinfo(parsed.netloc).hostname)

\* ParseResult.port raises ValueError
PortRaises(parsed) ==
    LET port == hostinfo(parsed.netloc).port
    IN  port # "" /\ (~IsDigits(port) \/ IntOf(port) > 65535)

\* ParseResult.port, 0 standing for None as well (both are falsy)
port(parsed) ==
    LET text == hostinfo(parsed.netloc).port
    IN  IF text = "" THEN 0 ELSE IntOf(text)

\* URLValidator._is_valid_hostname
is_valid_hostname(h) ==
    IF h = "" THEN FALSE
    ELSE IF h = "localhost" THEN TRUE
    ELSE IF ~(\A k \in 1..Len(h) : IsAlnum(SubSeq(h, k, k))
                                      \/ SubSeq(h, k, k) \in {".", "-", ":"})
    THEN FALSE
    ELSE HasSub(h, ".")

\* URLValidator._is_default_port
is_default_port(scheme, p) == p = (IF scheme = "http" THEN 80 ELSE HTTPS_PORT)

\* URLValidator._reconstruct_url
reconstruct_url(parsed) ==
    LET h == hostname(parsed)
        p == port(parsed)
        netloc == IF p # 0 /\ ~is_default_port(parsed.scheme, p)
                  THEN h \o ":" \o ToString(p) ELSE h
    IN  parsed.scheme \o "://" \o netloc
          \o (IF parsed.path = "" THEN "/" ELSE parsed.path)
          \o (IF parsed.query = "" THEN "" ELSE "?" \o parsed.query)
          \o (IF parsed.fragment = "" THEN "" ELSE "#" \o parsed.fragment)

\* validate raised ValueError
Rejected == [ok |-> FALSE, value |-> ""]

\* URLValidator.validate: the normalized URL, or Rejected on ValueError
validate(url) ==
    IF url = "" \/ Len(url) < MIN_URL_LENGTH \/ Len(url) > MAX_URL_LENGTH
    THEN Rejected
    ELSE IF ~StartsWith(url, "http://") /\ ~StartsWith(url, "https://")
            /\ HasSub(url, "://")
    THEN Rejected
    ELSE LET url_to_parse ==
                 IF StartsWith(url, "http://") \/ StartsWith(url, "https://")
                 THEN url ELSE "https://" \o url
             parsed == urlparse(url_to_parse)
         IN  IF parsed.raised THEN Rejected
             ELSE IF hostname(parsed) = "" THEN Rejected
             ELSE IF ~is_valid_hostname(hostname(parsed)) THEN Rejected
             ELSE IF PortRaises(parsed) THEN Rejected
             ELSE [ok |-> TRUE, value |-> reconstruct_url(parsed)]

\* The urls validated: every combination of these parts, and urls padded to
\* lengths around the maximum
UrlSchemes == {"", "http://", "https://", "ftp://"}
UrlHosts ==
    {"example.com", "EXAMPLE.com", "user@example.com", "localhost", "nodots",
     "[::ffff:1.2.3.4]", "a.b"}
UrlPorts == {"", ":80", ":443", ":8080", ":0", ":http"}
UrlPaths == {"", "/", "/p;x", "/a/b"}
UrlQueries == {"", "?q=1"}
UrlFragments == {"", "#f"}
PaddedPrefixes == {"example.com/", "https://example.com/", "http://EXAMPLE.com"}
PaddedLengths ==
    {MAX_URL_LENGTH - 8, MAX_URL_LENGTH - 7, MAX_URL_LENGTH - 1, MAX_URL_LENGTH,
     MAX_URL_LENGTH + 1}
Urls ==
    {s \o h \o p \o pa \o q \o f :
        s \in UrlSchemes, h \in UrlHosts, p \in UrlPorts, pa \in UrlPaths,
        q \in UrlQueries, f \in UrlFragments}
    \cup {pre \o Rep("a", n - Len(pre)) : pre \in PaddedPrefixes, n \in PaddedLengths}

InitValidator ==
    /\ InitCommon
    /\ enabled = TRUE
    /\ maxsize = MaxSize
    /\ ttl = CacheTtl
    /\ deadline = api_request_timeout_seconds

\* URLValidator.validate(url) and, when it accepts, validate of what it
\* returned. validate is a pure function: one call is followed per behaviour.
ValidateCall(url) ==
    /\ hist = <<>>
    /\ LET first == validate(url)
       IN  hist' = <<[op |-> "validate", url |-> url, first |-> first,
                      second |-> IF first.ok THEN validate(first.value)
                                 ELSE Rejected]>>
    /\ UNCHANGED <<now, enabled, maxsize, ttl, deadline, cache, instance, ready,
                   malware_urls, client, req, lastSet, origin, nreq, exchange,
                   lock, counters, thread, passed, orphans>>

NextValidator == \E url \in Urls : ValidateCall(url)

SpecValidator == InitValidator /\ [][NextValidator]_vars

(***************************************************************************)
(* utils/metrics.py called from RequestTimeoutMiddleware.dispatch by        *)
(* several threads. incr is followed statement by statement: entering       *)
(* `with _lock`, reading the counter, storing it, leaving the block.        *)
(* metrics.timing, which touches _timings only, is left out.                *)
(***************************************************************************)
\* Variant of CanAcquire: the block is entered whoever holds the lock
CanAcquireUnlocked(t) == TRUE

\* _lock.acquire() returns: nobody holds the lock
CanAcquire(t) == lock = Unlocked

\* The amount thread t has passed to incr(m) and incr has not stored yet
Unstored(t, m) ==
    IF thread[t].metric = m /\ thread[t].pc \in {"acquire", "read", "write"}
    THEN thread[t].amount ELSE 0

\* The same, over all threads
UnstoredTotal(m) ==
    LET F[S \in SUBSET Threads] ==
            IF S = {} THEN 0
            ELSE LET t == CHOOSE x \in S : TRUE IN Unstored(t, m) + F[S \ {t}]
    IN  F[Threads]

\* The requests counted in requests_total whose response is not yet counted
InFlight ==
    {t \in Threads : \/ thread[t].at = "call_next"
                     \/ thread[t].at = "after" /\ thread[t].pc = "acquire"}

InitMetrics ==
    /\ InitCommon
    /\ enabled = TRUE
    /\ maxsize = MaxSize
    /\ ttl = CacheTtl
    /\ deadline = api_request_timeout_seconds

\* A thread calls incr(metric, amount) from `at`
Call(t, at, metric, amount) ==
    /\ passed[metric] + amount <= MaxCount
    /\ thread' = [thread EXCEPT ![t] =
          [at |-> at, pc |-> "acquire", metric |-> metric, amount |-> amount,
           value |-> 0]]
    /\ passed' = [passed EXCEPT ![metric] = @ + amount]

\* dispatch, line 33: metrics.incr("requests_total")
DispatchStart(t) ==
    /\ thread[t].at = "idle"
    /\ Call(t, "before", "requests_total", 1)
    /\ UNCHANGED <<now, enabled, maxsize, ttl, deadline, cache, instance, ready,
                   malware_urls, client, req, lastSet, origin, hist, nreq,
                   exchange, lock, counters, orphans>>

\* dispatch, lines 35-39: call_next has returned the response;
\* metrics.incr("responses_total")
CallNextReturns(t) ==
    /\ thread[t].at = "call_next"
    /\ Call(t, "after", "responses_total", 1)
    /\ UNCHANGED <<now, enabled, maxsize, ttl, deadline, cache, instance, ready,
                   malware_urls, client, req, lastSet, origin, hist, nreq,
                   exchange, lock, counters, orphans>>

\* dispatch, line 35: call_next raises (the request is cancelled), and
\* dispatch ends without counting a response
CallNextRaises(t) ==
    /\ thread[t].at = "call_next"
    /\ thread' = [thread EXCEPT ![t] = IdleThread]
    /\ UNCHANGED <<now, enabled, maxsize, ttl, deadline, cache, instance, ready,
                   malware_urls, client, req, lastSet, origin, hist, nreq,
                   exchange, lock, counters, passed, orphans>>

\* incr(metric, amount) called on another counter, from outside dispatch
DirectIncr(t, amount) ==
    /\ thread[t].at = "idle"
    /\ Call(t, "direct", "other", amount)
    /\ UNCHANGED <<now, enabled, maxsize, ttl, deadline, cache, instance, ready,
                   malware_urls, client, req, lastSet, origin, hist, nreq,
                   exchange, lock, counters, orphans>>

\* incr: with _lock
IncrAcquire(t) ==
    /\ thread[t].pc = "acquire"
    /\ CanAcquire(t)
    /\ lock' = t
    /\ thread' = [thread EXCEPT ![t].pc = "read"]
    /\ UNCHANGED <<now, enabled, maxsize, ttl, deadline, cache, instance, ready,
                   malware_urls, client, req, lastSet, origin, hist, nreq,
                   exchange, counters, passed, orphans>>

\* incr: _counters.get(metric, 0)
IncrRead(t) ==
    /\ thread[t].pc = "read"
    /\ thread' = [thread EXCEPT ![t].pc = "write",
                                ![t].value = counters[thread[t].metric]]
    /\ UNCHANGED <<now, enabled, maxsize, ttl, deadline, cache, instance, ready,
                   malware_urls, client, req, lastSet, origin, hist, nreq,
                   exchange, lock, counters, passed, orphans>>

\* incr: _counters[metric] = ... + int(amount)
IncrWrite(t) ==
    /\ thread[t].pc = "write"
    /\ counters' = [counters EXCEPT ![thread[t].metric] =
                       thread[t].value + thread[t].amount]
    /\ thread' = [thread EXCEPT ![t].pc = "release"]
    /\ UNCHANGED <<now, enabled, maxsize, ttl, deadline, cache, instance, ready,
                   malware_urls, client, req, lastSet, origin, hist, nreq,
                   exchange, lock, passed, orphans>>

\* incr: the with block is left and incr returns to its caller
IncrRelease(t) ==
    /\ thread[t].pc = "release"
    /\ lock' = Unlocked
    /\ thread' = [thread EXCEPT ![t] =
          IF thread[t].at = "before"
          THEN [IdleThread EXCEPT !.at = "call_next"]
          ELSE IdleThread]
    /\ UNCHANGED <<now, enabled, maxsize, ttl, deadline, cache, instance, ready,
                   malware_urls, client, req, lastSet, origin, hist, nreq,
                   exchange, counters, passed, orphans>>

\* reset_metrics(), from a thread of its own: the counters are cleared under
\* the lock. The calls of incr that have not entered the block count from here.
ResetMetrics ==
    /\ lock = Unlocked
    /\ counters' = [m \in Counters |-> 0]
    /\ passed' = [m \in Counters |-> UnstoredTotal(m)]
    /\ orphans' = Cardinality(InFlight)
    /\ UNCHANGED <<now, enabled, maxsize, ttl, deadline, cache, instance, ready,
                   malware_urls, client, req, lastSet, origin, hist, nreq,
                   exchange, lock, thread>>

NextMetrics ==
    \/ \E t \in Threads : DispatchStart(t)
    \/ \E t \in Threads : CallNextReturns(t)
    \/ \E t \in Threads : CallNextRaises(t)
    \/ \E t \in Threads, a \in {1, 2} : DirectIncr(t, a)
    \/ \E t \in Threads : IncrAcquire(t)
    \/ \E t \in Threads : IncrRead(t)
    \/ \E t \in Threads : IncrWrite(t)
    \/ \E t \in Threads : IncrRelease(t)
    \/ ResetMetrics

SpecMetrics == InitMetrics /\ [][NextMetrics]_vars

(***************************************************************************)
(* Properties                                                              *)
(***************************************************************************)
\* check_url went out to the sources and returned
MissReturned(q) ==
    q.pc = "done" /\ q.ret # Absent /\ ~TheValue(q.ret).result_details.cached

\* The queried sources whose collected verdict is malicious
Malicious(q) == {l \in Range(q.queried) : q.results[l].is_malicious}

\* The place of an adapter in the registration order
RegIndex(l) == CHOOSE i \in 1..Len(loaders) : loaders[i] = l

\* C1: OR-semantics. For every query that misses the cache, the is_malicious
\* check_url returns (and the one the 200 response carries) is true if and
\* only if at least one verdict collected from the queried sources is
\* malicious, whatever the other sources report.
OrSemantics ==
    \A r \in OneSlot :
        LET q == req[r]
        IN  MissReturned(q) =>
              /\ TheValue(q.ret).is_malicious <=> (Malicious(q) # {})
              /\ q.response # Absent =>
                    (TheValue(q.response).is_malicious <=> (Malicious(q) # {}))

\* One source malicious, one reporting safe, one timed out: malicious
OrSemanticsWitness ==
    \E r \in OneSlot :
        LET q == req[r]
        IN  /\ MissReturned(q)
            /\ q.status = 200
            /\ TheValue(q.response).is_malicious
            /\ \E l \in Range(q.queried) : q.results[l].is_malicious
            /\ \E l \in Range(q.queried) :
                  ~q.results[l].is_malicious /\ "error" \notin q.results[l].metadata
            /\ \E l \in Range(q.queried) : q.results[l] = NoVerdict(l)

\* C2: severity monotonicity. The merged threat_level is the maximum severity
\* among the malicious verdicts collected; if none is malicious the merged
\* result is non-malicious with threat_level safe and confidence_score 0.0.
SeverityMonotonic ==
    \A r \in OneSlot :
        LET q == req[r]
        IN  MissReturned(q) =>
              LET ret == TheValue(q.ret)
                  d == ret.result_details
              IN  /\ Malicious(q) = {} =>
                        /\ ~ret.is_malicious
                        /\ d.threat_level = "safe"
                        /\ d.confidence_score = 0
                  /\ Malicious(q) # {} =>
                        /\ \E l \in Malicious(q) :
                              q.results[l].threat_level = d.threat_level
                        /\ \A l \in Malicious(q) :
                              Severity(q.results[l].threat_level)
                                  <= Severity(d.threat_level)
                  /\ q.response # Absent =>
                        /\ TheValue(q.response).threat_level = d.threat_level
                        /\ Malicious(q) = {} =>
                              TheValue(q.response).confidence_score = 0

\* Verdicts high, critical and a non-malicious one: critical
SeverityMonotonicWitness ==
    \E r \in OneSlot :
        LET q == req[r]
        IN  /\ MissReturned(q)
            /\ q.status = 200
            /\ TheValue(q.response).threat_level = "critical"
            /\ \E l \in Malicious(q) : q.results[l].threat_level = "high"
            /\ \E l \in Range(q.queried) : ~q.results[l].is_malicious

\* C3: merge commutativity. The merged result is determined by the verdicts
\* per source alone, not by the order in which the lookups completed:
\* threat_level, threat_type and confidence_score are those of the malicious
\* verdict of maximum severity, the first one in registration order on a tie.
MergeCommutative ==
    \A r \in OneSlot :
        LET q == req[r]
        IN  (MissReturned(q) /\ Malicious(q) # {}) =>
              LET ret == TheValue(q.ret)
                  d == ret.result_details
              IN  \E l \in Malicious(q) :
                      /\ \A m \in Malicious(q) :
                            \/ Severity(q.results[m].threat_level)
                                   < Severity(q.results[l].threat_level)
                            \/ /\ q.results[m].threat_level = q.results[l].threat_level
                               /\ RegIndex(l) <= RegIndex(m)
                      /\ ret.is_malicious
                      /\ d.threat_level = q.results[l].threat_level
                      /\ d.threat_type = q.results[l].threat_type
                      /\ d.confidence_score = q.results[l].confidence_score

\* Two malicious verdicts of the same severity and different threat types,
\* the one registered later arriving first, the one registered first winning
MergeCommutativeWitness ==
    \E r \in OneSlot :
        LET q == req[r]
        IN  /\ MissReturned(q)
            /\ \E l, m \in Malicious(q) :
                  /\ RegIndex(l) < RegIndex(m)
                  /\ q.results[l].threat_level = q.results[m].threat_level
                  /\ q.results[l].threat_type # q.results[m].threat_type
                  /\ \E i, j \in 1..Len(q.arrival) :
                        i < j /\ q.arrival[i] = m /\ q.arrival[j] = l
                  /\ \A n \in Malicious(q) :
                        Severity(q.results[n].threat_level)
                            <= Severity(q.results[l].threat_level)
                  /\ \A n \in Malicious(q) :
                        q.results[n].threat_level = q.results[l].threat_level
                            => RegIndex(l) <= RegIndex(n)
                  /\ TheValue(q.ret).result_details.threat_type
                         = q.results[l].threat_type

\* C4: cache idempotence. A response served from the cache reports the same
\* is_malicious and the same threat_level as the aggregation that wrote the
\* entry.
CacheIdempotence ==
    \A r \in OneSlot :
        LET q == req[r]
        IN  (q.pc = "done" /\ q.response # Absent /\ TheValue(q.response).cached) =>
              LET first == origin[KeyOf(TheValue(q.input))]
              IN  /\ first # Absent
                  /\ TheValue(q.response).is_malicious = TheValue(first).is_malicious
                  /\ TheValue(q.response).threat_level = TheValue(first).threat_level

\* The last call made on the cache
LastCall == hist[Len(hist)]

\* C5: TTL expiry. URLCache.get returns a value only before the time the
\* entry was last set plus ttl, in every sequence of calls; a value set is
\* returned by a get that follows at once, and with ttl = 1 it is gone at
\* any later time the clock shows.
TtlExpiry ==
    /\ (hist # <<>> /\ LastCall.op = "get" /\ LastCall.result # Absent) =>
          /\ lastSet[LastCall.key] >= 0
          /\ LastCall.time < lastSet[LastCall.key] + ttl
    /\ (Len(hist) = 2 /\ hist[1].op = "set" /\ hist[2].op = "get"
            /\ hist[1].key = hist[2].key /\ hist[1].time = hist[2].time
            /\ enabled /\ maxsize >= 1) =>
          hist[2].result = Some(hist[1].value)

\* An entry set with ttl = 1, read at once, and read again when the clock has
\* moved on: absent
TtlExpiryWitness ==
    /\ ttl = TestTtl /\ enabled /\ maxsize >= 1
    /\ Len(hist) = 2
    /\ hist[1].op = "get" /\ hist[2].op = "get"
    /\ hist[1].key = hist[2].key
    /\ hist[1].result # Absent
    /\ lastSet[hist[1].key] = hist[1].time
    /\ hist[2].time >= lastSet[hist[2].key] + ttl
    /\ hist[2].result = Absent

\* The keys set since the last clear whose entry has not expired
Unexpired == {k \in Keys : lastSet[k] >= 0 /\ now < lastSet[k] + ttl}

\* C6: bounded size. After any sequence of set/get/clear, URLCache.size() is
\* at most maxsize, and once maxsize or more distinct keys have been set and
\* have not expired, exactly maxsize entries are live.
BoundedSize ==
    /\ URLCacheSize(cache, now) <= maxsize
    /\ (enabled /\ Cardinality(Unexpired) >= maxsize) =>
          URLCacheSize(cache, now) = maxsize

\* More distinct unexpired keys set than the cache holds
BoundedSizeWitness ==
    /\ enabled /\ maxsize = MaxSize
    /\ Cardinality(Unexpired) > maxsize
    /\ URLCacheSize(cache, now) = maxsize
    /\ hist # <<>> /\ LastCall.op = "set"

\* C7: timeout isolation. With the overall deadline above the adapters'
\* timeout, a query that waits for its sources always comes to return a
\* merged result before the deadline, whether or not a source ever answers;
\* a source that has not answered within its timeout counts as "no verdict"
\* and the result is the merge of the other sources' verdicts.
TimeoutIsolation ==
    /\ [](\A r \in OneSlot :
            LET q == req[r]
            IN  (MissReturned(q) /\ deadline > db_query_timeout_seconds) =>
                  /\ ~q.timed_out /\ q.elapsed < deadline
                  /\ TheValue(q.ret).is_malicious <=>
                        \E l \in Range(q.queried) :
                            q.results[l] # NoVerdict(l) /\ q.results[l].is_malicious)
    /\ \A r \in OneSlot :
          (req[r].pc = "waiting" /\ deadline > db_query_timeout_seconds)
              ~> (MissReturned(req[r]) /\ ~req[r].timed_out
                    /\ req[r].elapsed < deadline)

\* One source hung until its timeout, another reported malicious: the query
\* returned malicious before the deadline
TimeoutIsolationWitness ==
    \E r \in OneSlot :
        LET q == req[r]
        IN  /\ MissReturned(q) /\ q.status = 200
            /\ deadline > db_query_timeout_seconds
            /\ q.elapsed >= db_query_timeout_seconds /\ q.elapsed < deadline
            /\ \E l \in Range(q.queried) : q.results[l] = NoVerdict(l)
            /\ \E l \in Range(q.queried) : q.results[l].is_malicious
            /\ TheValue(q.response).is_malicious

\* C8: overall deadline. A request whose deadline fired before check_url
\* completed ends with 503 and no verdict, as soon as the deadline is due and
\* with lookups still outstanding; a 200 response is only given when every
\* queried source has been accounted for.
OverallDeadline ==
    \A r \in OneSlot :
        LET q == req[r]
        IN  q.pc = "done" =>
              /\ q.timed_out =>
                    /\ q.status = 503 /\ q.response = Absent /\ q.ret = Absent
                    /\ q.elapsed >= deadline /\ q.elapsed < deadline + TimeStep
              /\ Pending(q) # {} => (q.timed_out /\ q.status = 503)
              /\ q.status = 200 => (~q.timed_out /\ Pending(q) = {})

\* The deadline fired with lookups outstanding
OverallDeadlineWitness ==
    \E r \in OneSlot :
        LET q == req[r]
        IN  /\ q.pc = "done" /\ q.timed_out /\ q.status = 503
            /\ Pending(q) # {}
            /\ q.arrival # <<>>

NoReadyDegradation ==
    \A r \in OneSlot :
        LET q == req[r]
        IN  (q.pc = "done" /\ q.checker_set /\ q.ready_at_call = {}
                /\ ValidationStatus(TheValue(q.input)) = 0) =>
              /\ q.status = 200
              /\ q.response # Absent
              /\ ~TheValue(q.response).is_malicious
              /\ TheValue(q.response).databases_queried = <<>>

\* C11: provenance. On a cache miss, the sources reported as queried are
\* exactly the adapters that were ready when the call was made, in
\* registration order, whatever their lookups came to and whatever became of
\* their readiness afterwards; adapters not ready then are left out.
Provenance ==
    \A r \in OneSlot :
        LET q == req[r]
            called == SelectSeq(loaders, LAMBDA l : l \in q.ready_at_call)
        IN  MissReturned(q) =>
              /\ TheValue(q.ret).databases_queried = called
              /\ Range(q.arrival) = q.ready_at_call
              /\ q.response # Absent =>
                    TheValue(q.response).databases_queried = called

\* A source whose initialize failed is left out, a source that timed out is
\* listed, and the shutdown that came after the call changes nothing
ProvenanceWitness ==
    \E r \in OneSlot :
        LET q == req[r]
        IN  /\ MissReturned(q) /\ q.status = 200
            /\ \E l \in LoaderNames : l \notin q.ready_at_call
            /\ TheValue(q.response).databases_queried
                   = <<"http-endpoint-0", "http-endpoint-1">>
            /\ \E l \in q.ready_at_call : q.results[l] = NoVerdict(l)
            /\ \A l \in LoaderNames : ~ready[l]

\* A step in which slot r takes a request that passes the readiness gate and
\* the validation, so that check_url is called
CallsCheckUrl(r) ==
    /\ nreq' = nreq + 1
    /\ instance /\ IsReady(ready)
    /\ ValidationStatus(TheValue(req'[r].input)) = 0

\* C12: cache hit short-circuit. Whenever check_url is called while the cache
\* holds an unexpired entry for the key, it returns at once with cached =
\* true and no source queried, and no adapter's lookup runs for that call.
CacheHitShortCircuit ==
    [][\A r \in OneSlot :
          (CallsCheckUrl(r) /\ enabled
              /\ Contains(cache, KeyOf(TheValue(req'[r].input)), now)) =>
            /\ req'[r].pc = "done"
            /\ req'[r].ret # Absent
            /\ TheValue(req'[r].ret).result_details.cached
            /\ TheValue(req'[r].ret).databases_queried = <<>>
            /\ req'[r].queried = <<>> /\ req'[r].arrival = <<>>
            /\ req'[r].elapsed = 0
            /\ cache' = cache
            /\ req'[r].status = 200 =>
                  /\ TheValue(req'[r].response).cached
                  /\ TheValue(req'[r].response).databases_queried = <<>>]_vars

\* A request answered from the cache while sources were ready
CacheHitShortCircuitWitness ==
    \E r \in OneSlot :
        LET q == req[r]
        IN  /\ q.pc = "done" /\ q.status = 200
            /\ TheValue(q.response).cached
            /\ TheValue(q.response).databases_queried = <<>>
            /\ q.queried = <<>>
            /\ q.ready_at_call = LoaderNames
            /\ Contains(cache, KeyOf(TheValue(q.input)), now)

\* C13: non-malicious verdicts are cached and served as hits. After a miss
\* that produced is_malicious = false and was stored, a second query of the
\* same key before the entry expires is a hit with cached = true and
\* is_malicious = false: the stored False is a value, not an absent entry.
NonMaliciousCached ==
    [][\A r \in OneSlot :
          (/\ MissReturned(req[r])
           /\ ~TheValue(req[r].ret).is_malicious
           /\ enabled /\ maxsize >= 1
           /\ now < lastSet[KeyOf(TheValue(req[r].input))] + ttl
           /\ CallsCheckUrl(r)
           /\ KeyOf(TheValue(req'[r].input)) = KeyOf(TheValue(req[r].input))) =>
            /\ URLCacheGet(cache, enabled, KeyOf(TheValue(req[r].input)), now)
                   = Some(FALSE)
            /\ req'[r].pc = "done"
            /\ req'[r].ret # Absent
            /\ TheValue(req'[r].ret).result_details.cached
            /\ ~TheValue(req'[r].ret).is_malicious
            /\ req'[r].status = 200
            /\ TheValue(req'[r].response).cached
            /\ ~TheValue(req'[r].response).is_malicious]_vars

\* google.com:80 asked twice: the second answer is a non-malicious hit
NonMaliciousCachedWitness ==
    \E r \in OneSlot :
        LET q == req[r]
        IN  /\ q.pc = "done" /\ q.status = 200
            /\ HostOf(TheValue(q.input)) = "google.com"
            /\ TheValue(q.response).cached
            /\ ~TheValue(q.response).is_malicious
            /\ origin[KeyOf(TheValue(q.input))]
                   = Some([is_malicious |-> FALSE, threat_level |-> "safe"])
            /\ URLCacheGet(cache, enabled, KeyOf(TheValue(q.input)), now) = Some(FALSE)

\* The one call of the adapters-only specification whose effect the state shows
LoaderCall == hist[1]

\* C14: a ThreatInfo constructed malicious with threat_level unset or "safe" has
\* threat_level "medium" after construction; any other supplied level (and
\* every level of a non-malicious verdict) is left as it was; and no verdict,
\* constructed directly or returned by a lookup, is malicious and "safe".
MaliciousNotSafe ==
    hist # <<>> =>
        /\ LoaderCall.op = "ThreatInfo" =>
              LET supplied == IF LoaderCall.threat_level = Unset THEN "safe"
                              ELSE LoaderCall.threat_level
              IN  /\ LoaderCall.result.is_malicious = LoaderCall.is_malicious
                  /\ (LoaderCall.is_malicious /\ supplied = "safe")
                        => LoaderCall.result.threat_level = "medium"
                  /\ ~(LoaderCall.is_malicious /\ supplied = "safe")
                        => LoaderCall.result.threat_level = supplied
        /\ LoaderCall.op \in {"ThreatInfo", "lookup"} =>
              ~(LoaderCall.result.is_malicious
                /\ LoaderCall.result.threat_level = "safe")

\* ThreatInfo(is_malicious=True) with no threat_level comes out "medium"
MaliciousNotSafeWitness ==
    /\ hist # <<>>
    /\ LoaderCall.op = "ThreatInfo"
    /\ LoaderCall.is_malicious
    /\ LoaderCall.threat_level = Unset
    /\ LoaderCall.result.threat_level = "medium"

\* The last call was HTTPLoader.lookup on a ready adapter and the upstream
\* request failed in one of the ordinary ways
OrdinaryFailure ==
    /\ hist # <<>>
    /\ LoaderCall.op = "lookup"
    /\ LoaderCall.loader \in HTTPLoaders
    /\ LoaderCall.before.ready[LoaderCall.loader]
    /\ LoaderCall.before.client[LoaderCall.loader]
    /\ \/ LoaderCall.kind \in {"timeout", "error", "badjson"}
       \/ LoaderCall.kind = "response" /\ LoaderCall.status_code # SUCCESS_CODE

\* C15: for every ordinary failure of HTTPLoader.lookup (network error, request
\* timeout, malformed payload, non-200 status) the call does not raise and
\* returns a non-malicious verdict whose metadata has the key "error".
LookupAbsorbsFailures ==
    OrdinaryFailure =>
        /\ ~LoaderCall.raised
        /\ ~LoaderCall.result.is_malicious
        /\ "error" \in LoaderCall.result.metadata

\* C16: a source that fails contributes "no verdict": the verdict its lookup
\* hands to the aggregator is non-malicious, with threat_level "safe" and
\* confidence_score 0.
FailureIsNoVerdict ==
    (/\ hist # <<>>
     /\ LoaderCall.op = "lookup"
     /\ LoaderCall.result.metadata \cap {"error", "http_status"} # {}) =>
        /\ ~LoaderCall.result.is_malicious
        /\ LoaderCall.result.threat_level = "safe"
        /\ LoaderCall.result.confidence_score = 0

\* C17: readiness changes only by initialize() and shutdown(): a successful
\* initialize() leaves the source ready, an initialize() that failed leaves it
\* not ready (it stays so until a later initialize() succeeds, no other call
\* making a source ready), shutdown() leaves it not ready, lookup() leaves
\* readiness as it was, and no call changes the readiness of another source.
ReadinessTransitions ==
    (hist # <<>> /\ LoaderCall.op \in {"initialize", "shutdown", "lookup"}) =>
        LET l == LoaderCall.loader
        IN  /\ \A m \in LoaderNames \ {l} : ready[m] = LoaderCall.before.ready[m]
            /\ LoaderCall.op = "lookup" => ready[l] = LoaderCall.before.ready[l]
            /\ LoaderCall.op = "shutdown" => ~ready[l]
            /\ (LoaderCall.op = "initialize" /\ ~LoaderCall.raised) => ready[l]
            /\ (LoaderCall.op = "initialize" /\ LoaderCall.raised) => ~ready[l]

\* C18: HTTPLoader.initialize() never raises and leaves the adapter ready (with
\* its client created), whether the connectivity probe answers, answers with a
\* 5xx status, or fails with a network error.
OptimisticAvailability ==
    (/\ hist # <<>>
     /\ LoaderCall.op = "initialize"
     /\ LoaderCall.loader \in HTTPLoaders) =>
        /\ LoaderCall.outcome \in {"ok", "5xx", "error"}
        /\ ~LoaderCall.raised
        /\ ready[LoaderCall.loader]
        /\ client[LoaderCall.loader]

\* An HTTP adapter that was not ready is initialized while its endpoint is
\* unreachable, and is ready
OptimisticAvailabilityWitness ==
    /\ hist # <<>>
    /\ LoaderCall.op = "initialize"
    /\ LoaderCall.loader \in HTTPLoaders
    /\ LoaderCall.outcome = "error"
    /\ ~LoaderCall.before.ready[LoaderCall.loader]
    /\ ready[LoaderCall.loader]

ShutdownIdempotent ==
    (hist # <<>> /\ LoaderCall.op = "shutdown") =>
        /\ ~LoaderCall.raised
        /\ ~ready[LoaderCall.loader]
        /\ Adapters = [LoaderCall.before EXCEPT
                           !.ready[LoaderCall.loader] = FALSE]
        /\ LoaderCall.again => Adapters = LoaderCall.before

\* An HTTP adapter that was initialized is shut down twice in a row
ShutdownIdempotentWitness ==
    /\ hist # <<>>
    /\ LoaderCall.op = "shutdown"
    /\ LoaderCall.again
    /\ LoaderCall.loader \in HTTPLoaders
    /\ client[LoaderCall.loader]
    /\ ~ready[LoaderCall.loader]

\* C21: when a source's initialize() fails with a configuration error at
\* startup, that source alone is not ready, every other source is initialized
\* and ready, and startup completes: the checker is published to the handler.
ConfigErrorIsolation ==
    [][(~instance /\ hist' # hist) =>
          /\ instance'
          /\ hist'[1].op = "startup"
          /\ \A l \in LoaderNames : ready'[l] = (l \notin hist'[1].failed)
          /\ \A l \in HTTPLoaders : client'[l]]_vars

\* The feed file did not parse at startup: the file source is not ready, both
\* HTTP sources are, and the checker is set
ConfigErrorIsolationWitness ==
    /\ hist # <<>>
    /\ hist[1].op = "startup"
    /\ hist[1].failed = FileLoaders
    /\ instance
    /\ \A l \in FileLoaders : ~ready[l]
    /\ \A l \in HTTPLoaders : ready[l]

\* Both requests for PairInput went through check_url as misses: neither found
\* the other's entry, so the two invocations overlapped
BothMissed == MissReturned(req[1]) /\ MissReturned(req[2])

\* The entries the cache holds for a key
EntriesFor(key) == {i \in 1..Len(cache) : cache[i].key = key}

CacheNotCorrupted ==
    /\ Len(cache) <= maxsize
    /\ URLCacheSize(cache, now) <= Len(cache)
    /\ \A i, j \in 1..Len(cache) : cache[i].key = cache[j].key => i = j
    /\ (hist # <<>> /\ LastCall.op = "get" /\ LastCall.result # Absent) =>
          /\ origin[LastCall.key] # Absent
          /\ LastCall.result = origin[LastCall.key]

\* A get between sets of other keys: the cache is full, TRUE was stored last for
\* another key, and the get of this key returns the FALSE stored for it
CacheNotCorruptedWitness ==
    /\ Len(cache) = maxsize /\ maxsize = MaxSize
    /\ hist # <<>> /\ LastCall.op = "get"
    /\ LastCall.result = Some(FALSE)
    /\ cache[Len(cache)].key # LastCall.key
    /\ cache[Len(cache)].value = TRUE
    /\ \E k \in Keys \ {LastCall.key} : origin[k] = Some(FALSE)

\* C24: with the cache disabled by configuration, get(key) returns absent for
\* every key, set(key, v) stores nothing and leaves the entries and size() as
\* they were, and every query that reaches check_url is a miss: it queries the
\* sources and is answered with cached = false.
DisabledCache ==
    /\ [](~enabled =>
            /\ \A k \in Keys : URLCacheGet(cache, enabled, k, now) = Absent
            /\ \A k \in Keys, v \in BOOLEAN :
                  LET set == URLCacheSet(cache, enabled, k, v, now, maxsize, ttl)
                  IN  set.cache = cache /\ ~set.stored /\ ~set.raised
            /\ URLCacheSize(cache, now) = 0
            /\ \A r \in OneSlot :
                  (req[r].pc = "done" /\ req[r].ret # Absent) =>
                      /\ MissReturned(req[r])
                      /\ req[r].queried = SelectSeq(loaders,
                                              LAMBDA l : l \in req[r].ready_at_call)
                      /\ req[r].response # Absent =>
                            ~TheValue(req[r].response).cached)
    /\ [][~enabled => cache' = cache /\ lastSet' = lastSet]_vars

\* The cache disabled: a second query has gone to the sources and returned a
\* malicious verdict with cached = false, and nothing is stored
DisabledCacheWitness ==
    /\ ~enabled
    /\ nreq = MaxReq
    /\ \E r \in OneSlot :
          /\ MissReturned(req[r])
          /\ req[r].status = 200
          /\ TheValue(req[r].response).is_malicious
          /\ ~TheValue(req[r].response).cached
    /\ cache = <<>>

\* C25: URLCache.set never raises to its caller. When TTLCache cannot store
\* the entry (maxsize too small for one entry) the write is dropped, the cache
\* contents stay as they were, and the query that made the write still
\* returns its merged result.
BestEffortCaching ==
    /\ [](\A k \in Keys, v \in BOOLEAN :
            LET set == URLCacheSet(cache, enabled, k, v, now, maxsize, ttl)
            IN  /\ ~set.raised
                /\ (enabled /\ TTLSetItem(cache, k, v, now, maxsize, ttl).raised) =>
                      set.cache = cache /\ ~set.stored)
    /\ [][\A r \in OneSlot :
            (/\ enabled /\ maxsize < 1
             /\ req[r].pc = "waiting" /\ req'[r].pc = "done"
             /\ ~req'[r].timed_out) =>
                /\ cache' = cache
                /\ lastSet' = lastSet
                /\ req'[r].raised # "check_url"
                /\ req'[r].ret = Some(MissResult(Merge(Collected(req[r])),
                                                 req[r].queried))
                /\ req'[r].status = ReturnAnswer(TheValue(req'[r].ret)).status]_vars

\* maxsize = 0: a query found the URL malicious, its cache write was dropped
\* and it was answered 200 with that verdict
BestEffortCachingWitness ==
    /\ enabled /\ maxsize = 0
    /\ \E r \in OneSlot :
          /\ MissReturned(req[r])
          /\ req[r].status = 200
          /\ TheValue(req[r].response).is_malicious
          /\ lastSet[KeyOf(TheValue(req[r].input))] = -1
    /\ cache = <<>>

\* A request the claim calls invalid: the hostname empty or shorter than 2
\* characters, the port segment not a number, or the URL longer than 2048
InvalidRequest(i) ==
    \/ StrLen(i.hostname) < 2
    \/ i.colon /\ ParseInt(i.port_text) = Absent
    \/ TentativeUrlLen(i) > 2048

\* The request was refused before check_url: a client error, no result of
\* check_url, no source queried
RefusedUnchecked(q) ==
    /\ q.status \in {400, 414}
    /\ q.ret = Absent /\ q.response = Absent
    /\ q.queried = <<>> /\ q.results = <<>> /\ q.arrival = <<>>

PortInRange ==
    (hist # <<>> /\ LastCall.op = "lookup_url") =>
        /\ LastCall.args # Absent =>
              /\ TheValue(LastCall.args).port \in 1..65535
              /\ SubSeq(TheValue(LastCall.args).path, 1, 1) = "/"
        /\ (/\ LastCall.input.colon
            /\ ParseInt(LastCall.input.port_text) # Absent
            /\ TheValue(ParseInt(LastCall.input.port_text)) \notin 1..65535)
              => LastCall.args = Absent

\* C28: every verdict an adapter produces (constructed by a lookup, whatever
\* the upstream payload carries) has confidence_score within [0.0, 1.0].
ConfidenceRange ==
    (hist # <<>> /\ LoaderCall.op = "lookup") =>
        /\ 0 <= LoaderCall.result.confidence_score
        /\ LoaderCall.result.confidence_score <= ConfidenceMax

\* C29: every verdict of a file-backed or HTTP-backed adapter with
\* is_malicious = false has threat_type None, also when it was parsed from an
\* upstream payload that carries a type.
TypeOnlyWhenMalicious ==
    (hist # <<>> /\ LoaderCall.op = "lookup" /\ ~LoaderCall.result.is_malicious) =>
        LoaderCall.result.threat_type = None

\* C30: for every configuration of file paths and endpoint URLs, the adapters
\* create_malware_checker registers have pairwise distinct names.
UniqueNames ==
    (hist # <<>> /\ hist[1].op = "create_malware_checker") =>
        \A i, j \in 1..Len(hist[1].names) :
            hist[1].names[i] = hist[1].names[j] => i = j

FileMatching ==
    (/\ hist # <<>>
     /\ LoaderCall.op = "lookup"
     /\ LoaderCall.loader \in FileLoaders
     /\ LoaderCall.before.ready[LoaderCall.loader]) =>
        LET v == LoaderCall.result
            listed == \E u \in LoaderCall.before.malware_urls[LoaderCall.loader] :
                          /\ u[1] = LowerStrip(LoaderCall.hostname)
                          /\ u[2] = LoaderCall.port
        IN  /\ v.is_malicious <=> listed
            /\ v.is_malicious =>
                   /\ v.threat_level = "high"
                   /\ v.threat_type = "malware"
                   /\ v.confidence_score = ConfidenceMax
            /\ ~v.is_malicious =>
                   /\ v.threat_level = "safe"
                   /\ v.threat_type = None
                   /\ v.confidence_score = 0
            /\ Adapters = LoaderCall.before

\* " evil.net" is looked up with port 80 and path "/" on a ready loader whose
\* dataset lists evil.net:80 under /trojan only: malicious
FileMatchingWitness ==
    /\ hist # <<>>
    /\ LoaderCall.op = "lookup"
    /\ LoaderCall.loader \in FileLoaders
    /\ LoaderCall.before.ready[LoaderCall.loader]
    /\ LoaderCall.hostname = " evil.net"
    /\ LoaderCall.port = 80
    /\ LoaderCall.path = "/"
    /\ LoaderCall.before.malware_urls[LoaderCall.loader] = FileContent
    /\ LoaderCall.result.is_malicious

\* The adapter of the last call was not ready when it was called
CalledNotReady ==
    \/ ~LoaderCall.before.ready[LoaderCall.loader]
    \/ LoaderCall.loader \in HTTPLoaders /\ ~LoaderCall.before.client[LoaderCall.loader]

\* C34: lookup() on an adapter that was never initialized, whose initialize
\* failed, or that has been shut down does not raise and returns a
\* non-malicious verdict whose metadata has error = "Loader not ready", also
\* for a hostname listed in the dataset it loaded earlier.
NotReadyLookup ==
    (/\ hist # <<>>
     /\ LoaderCall.op = "lookup"
     /\ (CalledNotReady \/ LoaderCall.after_failure)) =>
        /\ ~LoaderCall.raised
        /\ ~LoaderCall.result.is_malicious
        /\ "error" \in LoaderCall.result.metadata
        /\ LoaderCall.error = "Loader not ready"

\* The part of C34 about the adapters that are not ready when called
NotReadyLookupGated ==
    (/\ hist # <<>>
     /\ LoaderCall.op = "lookup"
     /\ CalledNotReady) =>
        /\ ~LoaderCall.raised
        /\ ~LoaderCall.result.is_malicious
        /\ "error" \in LoaderCall.result.metadata
        /\ LoaderCall.error = "Loader not ready"

\* C35: a request made while no checker is set or is_ready() is false is
\* answered 503 whatever its input, valid or not (the gate runs before the
\* validation), at once, with no result of check_url, no source queried and
\* the cache left as it was.
ReadinessGate ==
    /\ [](\A r \in OneSlot :
            LET q == req[r]
            IN  (q.pc = "done" /\ (~q.checker_set \/ q.ready_at_call = {})) =>
                    /\ q.status = 503
                    /\ q.ret = Absent /\ q.response = Absent
                    /\ q.queried = <<>> /\ q.results = <<>> /\ q.arrival = <<>>)
    /\ [][\A r \in OneSlot :
            (nreq' = nreq + 1 /\ (~instance \/ \A l \in LoaderNames : ~ready[l])) =>
                /\ req'[r].pc = "done"
                /\ cache' = cache /\ lastSet' = lastSet /\ origin' = origin]_vars

\* ":80" (no hostname) is asked after the shutdown, the cache still holding an
\* entry: 503, not 400
ReadinessGateWitness ==
    /\ cache # <<>>
    /\ \E r \in OneSlot :
          /\ req[r].pc = "done"
          /\ TheValue(req[r].input).hostname = ""
          /\ req[r].checker_set /\ req[r].ready_at_call = {}
          /\ req[r].status = 503

\* C36: the step in which the overall deadline cuts a query leaves the cache
\* as it was; once cut, the cache holds no live entry for the query's key; and
\* the next query of the same key that reaches check_url misses the cache and
\* goes out to the sources that are ready.
NoWriteOnDeadline ==
    /\ [][\A r \in OneSlot :
            (req[r].pc = "waiting" /\ req'[r].timed_out) =>
                cache' = cache /\ lastSet' = lastSet /\ origin' = origin]_vars
    /\ [](\A r \in OneSlot :
            (req[r].pc = "done" /\ req[r].timed_out) =>
                /\ req[r].ret = Absent
                /\ ~Contains(cache, KeyOf(TheValue(req[r].input)), now))
    /\ [][\A r \in OneSlot :
            (/\ req[r].pc = "done" /\ req[r].timed_out
             /\ CallsCheckUrl(r)
             /\ KeyOf(TheValue(req'[r].input)) = KeyOf(TheValue(req[r].input))) =>
                /\ req'[r].pc = "waiting"
                /\ req'[r].queried = ReadyLoaders(ready)
                /\ req'[r].queried # <<>>]_vars

\* The deadline cut a query of the caching service for which a source had
\* already reported malicious, and the same URL can be asked again
NoWriteOnDeadlineWitness ==
    /\ enabled /\ maxsize > 0
    /\ nreq < MaxReq
    /\ instance /\ IsReady(ready)
    /\ \E r \in OneSlot :
          LET q == req[r]
          IN  /\ q.pc = "done" /\ q.timed_out /\ q.status = 503
              /\ \E l \in Range(q.arrival) : q.results[l].is_malicious
              /\ ~Contains(cache, KeyOf(TheValue(q.input)), now)

\* C37: every response sent, success or error, carries an X-Request-ID header
\* equal to the request's X-Request-ID when the client supplied one and
\* otherwise a generated id "req-" plus 12 hex characters; and the request_id
\* of an error response's body equals that header.
RequestCorrelation ==
    exchange.pc = "done" =>
        /\ exchange.response_header # Absent
        /\ (exchange.header # Absent /\ TheValue(exchange.header) # "") =>
               TheValue(exchange.response_header) = TheValue(exchange.header)
        /\ (exchange.header = Absent \/ exchange.header = Some("")) =>
               IsGenerated(TheValue(exchange.response_header))
        /\ (exchange.status >= 400 /\ exchange.body_request_id # Absent) =>
               exchange.body_request_id = exchange.response_header

\* The part of C37 about the header alone
RequestIdHeader ==
    exchange.pc = "done" =>
        /\ exchange.response_header # Absent
        /\ (exchange.header # Absent /\ TheValue(exchange.header) # "") =>
               TheValue(exchange.response_header) = TheValue(exchange.header)
        /\ (exchange.header = Absent \/ exchange.header = Some("")) =>
               IsGenerated(TheValue(exchange.response_header))

\* C38: for every url that validate accepts, validate of the url it returned
\* succeeds and returns that same url, urls without a scheme and urls of 2048
\* characters included.
NormalizationIdempotent ==
    (hist # <<>> /\ LoaderCall.op = "validate" /\ LoaderCall.first.ok) =>
        /\ LoaderCall.second.ok
        /\ LoaderCall.second.value = LoaderCall.first.value

\* The part of C38 that holds: a normalized url that is itself within the
\* maximum length and has no bracketed host is returned unchanged
NormalizationIdempotentWithin ==
    (/\ hist # <<>> /\ LoaderCall.op = "validate" /\ LoaderCall.first.ok
     /\ Len(LoaderCall.first.value) <= MAX_URL_LENGTH
     /\ ~HasSub(LoaderCall.url, "[")) =>
        /\ LoaderCall.second.ok
        /\ LoaderCall.second.value = LoaderCall.first.value

\* C39 as stated: no increment is lost, each counter being the sum of the
\* amounts passed to incr since the last reset (less those incr has not
\* stored yet), and responses_total <= requests_total in every state.
MetricsUnderConcurrency ==
    /\ \A m \in Counters : counters[m] + UnstoredTotal(m) = passed[m]
    /\ counters["responses_total"] <= counters["requests_total"]

\* C39, amended: no increment is lost; responses_total exceeds requests_total
\* by at most the number of requests that were in flight when reset_metrics
\* last ran, so that responses_total <= requests_total as long as no reset
\* happened with a request in flight.
MetricsConsistent ==
    /\ \A m \in Counters : counters[m] + UnstoredTotal(m) = passed[m]
    /\ counters["responses_total"] <= counters["requests_total"] + orphans
    /\ lock # Unlocked => thread[lock].pc \in {"read", "write", "release"}
    /\ \A t \in Threads : thread[t].pc \in {"read", "write", "release"} => lock = t

\* One thread is storing requests_total while another waits for the lock to
\* count its own request, a response having been counted already
MetricsConsistentWitness ==
    \E t, u \in Threads :
        /\ t # u
        /\ lock = t
        /\ thread[t].pc = "write" /\ thread[t].metric = "requests_total"
        /\ thread[u].pc = "acquire" /\ thread[u].metric = "requests_total"
        /\ counters["responses_total"] >= 1
====
